---- MODULE Spec2Model ----
(***************************************************************************)
(* Verification model of the AIDQA visual-regression engine:               *)
(*   - the three comparePngExact implementations (byte-exact server one,   *)
(*     and the two pixelmatch-based edge-function ones),                   *)
(*   - generateAIInsights (the call to the external classifier),           *)
(*   - the run-creation handlers built on top of them.                     *)
(*                                                                         *)
(* Images are decoded rasters: width, height and a row-major sequence of   *)
(* RGBA pixels (pixel p = width*y + x + 1 stands for bytes idx..idx+3 with *)
(* idx = (width*y + x) << 2).  Screenshots are fully opaque, so the        *)
(* palette holds opaque pixels only.                                       *)
(*                                                                         *)
(* Floating point is modelled in fixed point; the palette is chosen so     *)
(* that every colour distance is far from the decision thresholds and the  *)
(* rounding of the last digits cannot change a classification.             *)
(***************************************************************************)
EXTENDS Integers, Sequences, FiniteSets, TLC

VARIABLES
    baseline,   \* decoded baseline image handed to comparePngExact
    current,    \* decoded current image handed to comparePngExact
    cmp,        \* what the last comparePngExact call did and returned
    aiEnv,      \* environment of a generateAIInsights call: key, classifier reply
    ai,         \* what the last generateAIInsights call did and returned
    pc,         \* position of the edge handleCreateRun: idle, awaitAI, done
    timer,      \* the handler's 30 s setTimeout: unset, armed, fired, cleared
    aborted,    \* controller.signal.aborted
    fetch,      \* the request to the classifier: none, inflight, settled, cancelled
    request,    \* the messages generateAIInsights sent to the classifier
    locals,     \* the handler's local values across the await
    storage,    \* objects in the edge storage bucket
    visual_runs,\* rows of the visual_runs table
    response,   \* the HTTP response of the edge handler
    listed,     \* the body of the last handleListRuns response
    serverFiles,\* files written below the Express server's storage root
    serverResponse, \* the HTTP response of the Express create-run route
    resultFiles,\* the parsed contents of the result.json files, by run id
    fetched,    \* the HTTP response of the Express get-run route
    runs,       \* concurrent run creations: each request's position and locals
    disk,       \* contents of the files and bucket objects the concurrent runs share
    sweep,      \* mismatch counts pixelmatch reported, by threshold
    urlCheck,   \* a URL, the ALLOWED_HOSTS setting and isUrlSafe's answer for them
    clock,      \* Date.now(), in milliseconds
    limitEnv,   \* Deno.env.get('RATE_LIMIT_PER_MINUTE')
    rateLimitStore, \* the module-level Map of rateLimit.ts: ip -> entry
    calls,      \* the checkRateLimit calls made so far, with their results
    indexFile,  \* storage/visual/baselineIndex.json
    projectFiles, \* storage/visual/<projectId>/baselines.json, by project
    metaFiles,  \* the baseline.meta.json files written
    saves,      \* saveBaselineMeta calls: each call's position and locals
    admission   \* a creation request and what its handler did with the URL

compareVars == <<baseline, current, cmp>>

insightVars == <<aiEnv, ai>>

edgeVars ==
    <<pc, timer, aborted, fetch, request, locals, storage, visual_runs, response, listed>>

serverVars == <<serverFiles, serverResponse, resultFiles, fetched>>

concVars == <<runs, disk>>

rateVars == <<clock, limitEnv, rateLimitStore, calls>>

indexVars == <<indexFile, projectFiles, metaFiles, saves>>

libVars == <<sweep, urlCheck, rateVars, indexVars, admission>>

vars == <<baseline, current, cmp, aiEnv, ai, pc, timer, aborted, fetch, request, locals,
          storage, visual_runs, response, listed, serverFiles, serverResponse,
          resultFiles, fetched, runs, disk,
          sweep, urlCheck, clock, limitEnv, rateLimitStore, calls,
          indexFile, projectFiles, metaFiles, saves, admission>>

-----------------------------------------------------------------------------
(* Bounds and input sets                                                   *)

MaxPixels == 2

Black == <<0, 0, 0, 255>>

White == <<255, 255, 255, 255>>

NearBlack == <<2, 2, 2, 255>>

DarkBlue == <<0, 0, 40, 255>>

Palette == {Black, White, NearBlack, DarkBlue}

Dims == {d \in (1..MaxPixels) \X (1..MaxPixels) : d[1] * d[2] <= MaxPixels}

MkImage(w, h, d) == [width |-> w, height |-> h, data |-> d]

SmallImages ==
    UNION {{MkImage(d[1], d[2], f) : f \in [1..(d[1] * d[2]) -> Palette]} : d \in Dims}

\* The end-to-end scenario images: solid black 10x10, and the same with a
\* 2x2 white patch at (0,0).
Black10 == MkImage(10, 10, [p \in 1..100 |-> Black])

InPatch(p) == (p - 1) % 10 < 2 /\ (p - 1) \div 10 < 2

Patch10 == MkImage(10, 10, [p \in 1..100 |-> IF InPatch(p) THEN White ELSE Black])

\* The 2x2 pair of the server's test "FAIL when one pixel differs": pixel
\* (0,0) is (0,0,0,255) against (1,0,0,255), the others are (10,20,30,255).
OnePixelBase == MkImage(2, 2, <<Black, <<10, 20, 30, 255>>, <<10, 20, 30, 255>>, <<10, 20, 30, 255>>>>)

OnePixelCurrent ==
    MkImage(2, 2, <<<<1, 0, 0, 255>>, <<10, 20, 30, 255>>, <<10, 20, 30, 255>>, <<10, 20, 30, 255>>>>)

\* A 2x2 pair whose one changed pixel goes from black to white, and a 3x1
\* pair with one changed pixel of three.
Quad == MkImage(2, 2, <<Black, Black, Black, Black>>)

QuadOneWhite == MkImage(2, 2, <<White, Black, Black, Black>>)

Strip == MkImage(3, 1, <<Black, Black, Black>>)

StripOneWhite == MkImage(3, 1, <<White, Black, Black>>)

\* Two single pixels of equal brightness and different hue.
RedDot == MkImage(1, 1, <<<<255, 0, 0, 255>>>>)

GreenDot == MkImage(1, 1, <<<<0, 255, 0, 255>>>>)

Images ==
    SmallImages \cup {Black10, Patch10, OnePixelBase, OnePixelCurrent,
                      Quad, QuadOneWhite, Strip, StripOneWhite, RedDot, GreenDot}

\* Re-render noise: every channel of every pixel moves by at most 2 units.
NoiseBases == {Black, White, <<10, 20, 30, 255>>, <<128, 128, 128, 255>>}

NoiseOffsets == (-2..2) \X (-2..2) \X (-2..2)

\* a byte store into a Uint8ClampedArray
Clamp(v) == IF v < 0 THEN 0 ELSE IF v > 255 THEN 255 ELSE v

Shifted(px, off) ==
    <<Clamp(px[1] + off[1]), Clamp(px[2] + off[2]), Clamp(px[3] + off[3]), px[4]>>

Negated(off) == <<0 - off[1], 0 - off[2], 0 - off[3]>>

Null == [isNull |-> TRUE]

Undefined == <<-1, -1, -1, -1>>

-----------------------------------------------------------------------------
(* Helpers shared by the implementations                                   *)

Abs(x) == IF x < 0 THEN 0 - x ELSE x

TotalPixels(img) == img.width * img.height

\* A typed-array read: out of range yields undefined.
PixelAt(img, p) == IF p \in DOMAIN img.data THEN img.data[p] ELSE Undefined

Transparent == <<0, 0, 0, 0>>

-----------------------------------------------------------------------------
(* server/visual/services/comparePngExact.ts: byte-exact comparison that    *)
(* always writes the diff PNG to diffPath.                                  *)

DimensionsMatchWidthOnly(b, c) == b.width = c.width

DimensionsMatch(b, c) == b.width = c.width /\ b.height = c.height

ExactMismatchShifted(b, c, p) == PixelAt(b, p) # PixelAt(c, p + 1)

\* br !== cr || bg !== cg || bb !== cb || ba !== ca
ExactMismatch(b, c, p) == PixelAt(b, p) # PixelAt(c, p)

OpaqueRed == <<255, 0, 0, 255>>

ExactPercentUnscaled(count, total) == IF total = 0 THEN <<0, 1>> ELSE <<count, total>>

\* mismatchPercent = totalPixels === 0 ? 0 : (mismatchPixelCount / totalPixels) * 100,
\* kept as the exact fraction <<numerator, denominator>>.
ExactPercent(count, total) == IF total = 0 THEN <<0, 1>> ELSE <<count * 100, total>>

ServerComparePngExact(b, c) ==
    IF ~DimensionsMatch(b, c)
    THEN [impl |-> "server", outcome |-> "DimensionMismatchError",
          visited |-> 0, returned |-> FALSE, diffWritten |-> FALSE]
    ELSE LET n == TotalPixels(b)
             bad == {p \in 1..n : ExactMismatch(b, c, p)}
             diff == MkImage(b.width, b.height,
                             [p \in 1..n |-> IF p \in bad THEN OpaqueRed ELSE Transparent])
             count == Cardinality(bad)
         IN [impl |-> "server", outcome |-> "ok",
             visited |-> n, returned |-> TRUE, diffWritten |-> TRUE,
             diffFile |-> diff,
             mismatchPixelCount |-> count,
             totalPixels |-> n,
             mismatchPercent |-> ExactPercent(count, n),
             pass |-> (count = 0)]

-----------------------------------------------------------------------------
(* pixelmatch@6.0.0 as the edge functions call it:                          *)
(*   pixelmatch(img1, img2, output, width, height,                          *)
(*              {threshold: 0.1, alpha: 0.1, includeAA: true, diffColor})   *)
(* includeAA: true switches the anti-aliasing detection off, and no         *)
(* diffMask option is passed, so the library draws every pixel of output:   *)
(* a differing pixel in diffColor, a similar pixel as a grey rendering of   *)
(* img1, both with alpha 255.                                               *)

\* threshold 0.1 and alpha 0.1, in hundredths
Threshold100 == 10

Alpha100 == 10

ColorDeltaBrighterOnly(p1, p2) ==
    IF p1[1] + p1[2] + p1[3] > p2[1] + p2[2] + p2[3] THEN 35215 * 10000 ELSE 0

\* Squared YIQ distance of two opaque pixels, times 10000.  y, i and q are
\* kept in tenths (magnitudes, as only their squares are used) and their
\* squares in units.
ColorDelta(p1, p2) ==
    LET dr == p1[1] - p2[1]
        dg == p1[2] - p2[2]
        db == p1[3] - p2[3]
        y10 == Abs(299 * dr + 587 * dg + 114 * db) \div 100
        i10 == Abs(596 * dr - 274 * dg - 322 * db) \div 100
        q10 == Abs(211 * dr - 523 * dg + 311 * db) \div 100
    IN 5053 * ((y10 * y10) \div 100) + 2990 * ((i10 * i10) \div 100)
         + 1957 * ((q10 * q10) \div 100)

MaxDeltaShrinking(t100) == 35215 * (100 - t100) * (100 - t100)

\* maxDelta = 35215 * threshold * threshold, times 10000
MaxDelta(t100) == 35215 * t100 * t100

PixelDiffersExact(p1, p2, t100) == p1 # p2

\* delta = a32[i] === b32[i] ? 0 : colorDelta(...);  Math.abs(delta) > maxDelta
PixelDiffers(p1, p2, t100) == p1 # p2 /\ ColorDelta(p1, p2) > MaxDelta(t100)

\* drawGrayPixel: val = 255 + (luma - 255) * alpha * a / 255, stored in a
\* clamped byte array (rounded to nearest).
GrayPixel(px) ==
    LET luma1000 == 299 * px[1] + 587 * px[2] + 114 * px[3]
        fade == ((255000 - luma1000) * Alpha100 * px[4]) \div 255
        val == 255 - ((fade + 50000) \div 100000)
    IN <<val, val, val, 255>>

\* drawPixel(output, pos, r, g, b) also sets alpha to 255
DrawPixel(color) == <<color[1], color[2], color[3], 255>>

\* Returns the number of differing pixels and the output buffer it drew.
pixelmatch(img1, img2, width, height, t100, diffColor) ==
    LET n == width * height
        differs == {p \in 1..n : PixelDiffers(img1[p], img2[p], t100)}
    IN [count |-> Cardinality(differs),
        differs |-> differs,
        output |-> [p \in 1..n |->
                      IF p \in differs THEN DrawPixel(diffColor) ELSE GrayPixel(img1[p])]]

\* parseFloat(((count / total) * 100).toFixed(4)) in units of 0.0001 percent
RoundedPercent(count, total) ==
    IF total > 0 THEN (2 * count * 1000000 + total) \div (2 * total) ELSE 0

-----------------------------------------------------------------------------
(* supabase/functions/visual-api/visual/diff.ts: pixelmatch, then a         *)
(* two-tone pass over the pixels whose alpha in diffData is not 0.          *)

\* 0.299 R + 0.587 G + 0.114 B, times 1000 (0 if fully transparent)
Luminance(px) == IF px[4] > 0 THEN 299 * px[1] + 587 * px[2] + 114 * px[3] ELSE 0

EdgeGreen == <<0, 200, 0, 200>>

EdgeRed == <<220, 0, 0, 200>>

EdgeTwoTone(bpx, cpx, dpx) ==
    IF dpx[4] = 0 THEN dpx
    ELSE IF Luminance(bpx) > Luminance(cpx) THEN EdgeGreen ELSE EdgeRed

EdgeComparePngExact(b, c) ==
    IF ~(c.width = b.width /\ c.height = b.height)
    THEN [impl |-> "edge", outcome |-> "Error",
          visited |-> 0, returned |-> FALSE, diffWritten |-> FALSE]
    ELSE LET n == TotalPixels(b)
             pm == pixelmatch(b.data, c.data, b.width, b.height, Threshold100, <<255, 0, 0>>)
             diff == MkImage(b.width, b.height,
                             [p \in 1..n |-> EdgeTwoTone(b.data[p], c.data[p], pm.output[p])])
         IN [impl |-> "edge", outcome |-> "ok",
             visited |-> n, returned |-> TRUE, diffWritten |-> FALSE,
             flagged |-> pm.differs,
             diffPixels |-> pm.count,
             mismatchPercentage |-> RoundedPercent(pm.count, n),
             diffPngBytes |-> IF pm.count > 0 THEN diff ELSE Null]

-----------------------------------------------------------------------------
(* The second edge implementation (unnamed/part_005): pixelmatch into a     *)
(* temporary mask, then yellow / green / red by distance and brightness.    *)

NoiseDistance == 30

Yellow == <<255, 230, 0, 220>>

Green == <<0, 255, 50, 240>>

Red == <<255, 0, 50, 240>>

\* |bR - cR| + |bG - cG| + |bB - cB|
Dist(bpx, cpx) == Abs(bpx[1] - cpx[1]) + Abs(bpx[2] - cpx[2]) + Abs(bpx[3] - cpx[3])

\* (R + G + B) / 3 is compared on both sides, so the sums are compared.
Brightness3(px) == px[1] + px[2] + px[3]

TwoTone(bpx, cpx, mpx) ==
    IF mpx[4] = 0 THEN Transparent
    ELSE IF Dist(bpx, cpx) < NoiseDistance THEN Yellow
    ELSE IF Brightness3(bpx) < Brightness3(cpx) THEN Green ELSE Red

TwoToneComparePngExact(b, c) ==
    IF ~(c.width = b.width /\ c.height = b.height)
    THEN [impl |-> "twotone", outcome |-> "Error",
          visited |-> 0, returned |-> FALSE, diffWritten |-> FALSE]
    ELSE LET n == TotalPixels(b)
             pm == pixelmatch(b.data, c.data, b.width, b.height, Threshold100, <<255, 255, 255>>)
             diff == MkImage(b.width, b.height,
                             [p \in 1..n |-> TwoTone(b.data[p], c.data[p], pm.output[p])])
         IN [impl |-> "twotone", outcome |-> "ok",
             visited |-> n, returned |-> TRUE, diffWritten |-> FALSE,
             flagged |-> pm.differs,
             diffPixels |-> pm.count,
             mismatchPercentage |-> RoundedPercent(pm.count, n),
             diffPngBytes |-> IF pm.count > 0 THEN diff ELSE Null]

\* The implementation named impl applied to baseline b and current c.
Compare(impl, b, c) ==
    CASE impl = "server" -> ServerComparePngExact(b, c)
      [] impl = "edge" -> EdgeComparePngExact(b, c)
      [] impl = "twotone" -> TwoToneComparePngExact(b, c)

\* mismatchPixelCount of the server result, diffPixels of an edge result
CountOf(r) == IF r.impl = "server" THEN r.mismatchPixelCount ELSE r.diffPixels

\* The stores a comparison performs on pixel buffers, as (buffer, pixel,
\* value).  Every indexed assignment of the three implementations targets
\* the diff image (diff.data, diffData) or the pixelmatch output (diffData,
\* maskData); baselineData and currentData only appear on right-hand sides.
Store(buffer, p, value) == [buffer |-> buffer, pos |-> p, value |-> value]

StoresMarkingCurrent(impl, b, c) ==
    IF Compare(impl, b, c).outcome # "ok" THEN {}
    ELSE {Store("current", p, OpaqueRed) : p \in {q \in 1..TotalPixels(b) : b.data[q] # c.data[q]}}

Stores(impl, b, c) ==
    LET r == Compare(impl, b, c)
        n == TotalPixels(b)
    IN IF r.outcome # "ok" THEN {}
       ELSE IF impl = "server"
       THEN {Store("diff", p, Transparent) : p \in 1..n}
               \cup {Store("diff", p, OpaqueRed) : p \in {q \in 1..n : ExactMismatch(b, c, q)}}
       ELSE LET pm == pixelmatch(b.data, c.data, b.width, b.height, Threshold100,
                                 <<255, 255, 255>>)
            IN {Store("mask", p, pm.output[p]) : p \in 1..n}
                  \cup (IF r.diffPngBytes = Null THEN {}
                        ELSE {Store("diff", p, r.diffPngBytes.data[p]) : p \in 1..n})

\* A buffer after the stores addressed to it.
Stored(img, buffer, stores) ==
    [img EXCEPT !.data =
        [p \in DOMAIN img.data |->
            IF \E st \in stores : st.buffer = buffer /\ st.pos = p
            THEN (CHOOSE st \in stores : st.buffer = buffer /\ st.pos = p).value
            ELSE img.data[p]]]

-----------------------------------------------------------------------------
(* supabase/functions/visual-api/_lib/openai.ts: generateAIInsights.        *)
(* The classifier is an external black box: its reply is an input.          *)

Severities == {"undefined", "pass", "minor", "major", "critical", "fail", "bogus"}

IssuesShapes == {"undefined", "null", "notarray", "empty", "some"}

Presence == {"undefined", "present"}

\* What JSON.parse(content) yields when content is a JSON object.
ObjectReplies ==
    [kind : {"object"}, severity : Severities, issues : IssuesShapes,
     summary : Presence, quickWins : Presence]

NonObject(k) ==
    [kind |-> k, severity |-> "undefined", issues |-> "undefined",
     summary |-> "undefined", quickWins |-> "undefined"]

\* fetch rejects; response.ok is false; no choices[0].message.content;
\* content is not JSON; content is the JSON literal null.
FailureKinds == {"network_error", "http_error", "no_content", "bad_json", "json_null"}

Replies == ObjectReplies \cup {NonObject(k) : k \in FailureKinds}

AiEnvs == [hasKey : BOOLEAN, reply : Replies]

NoAiEnv == [hasKey |-> FALSE, reply |-> NonObject("network_error")]

NotCalled == [impl |-> "none", outcome |-> "none", value |-> Null, requests |-> 0]

Threw(impl, n) == [impl |-> impl, outcome |-> "threw", value |-> Null, requests |-> n]

Returned(impl, v) == [impl |-> impl, outcome |-> "returned", value |-> v, requests |-> 1]

\* console.log(insights.severity, insights.issues.length) after JSON.parse:
\* the only reads of the parsed value before it is returned.
LogThrows(reply) == reply.kind = "json_null" \/ reply.issues \in {"undefined", "null"}

\* unnamed/part_003 also calls insights.issues.map(...)
LogParsedThrows(reply) == LogThrows(reply) \/ reply.issues = "notarray"

generateAIInsightsRetrying(env) ==
    IF ~env.hasKey THEN Threw("openai", 0)
    ELSE IF env.reply.kind \in {"network_error", "http_error", "no_content", "bad_json"}
         THEN Threw("openai", 2)
    ELSE IF LogThrows(env.reply) THEN Threw("openai", 2)
    ELSE Returned("openai", env.reply)

generateAIInsights(env) ==
    IF ~env.hasKey THEN Threw("openai", 0)
    ELSE IF env.reply.kind \in {"network_error", "http_error", "no_content", "bad_json"}
         THEN Threw("openai", 1)
    ELSE IF LogThrows(env.reply) THEN Threw("openai", 1)
    ELSE Returned("openai", env.reply)

generateAIInsightsLogged(env) ==
    IF ~env.hasKey THEN Threw("logged", 0)
    ELSE IF env.reply.kind \in {"network_error", "http_error", "no_content", "bad_json"}
         THEN Threw("logged", 1)
    ELSE IF LogParsedThrows(env.reply) THEN Threw("logged", 1)
    ELSE Returned("logged", env.reply)

-----------------------------------------------------------------------------
(* The edge run handler (unnamed/part_007: handleCreateRun,                 *)
(* handleListRuns).  The handler is one action up to the point where it     *)
(* awaits the classifier, and one action from the classifier's answer to    *)
(* its response; in between its 30 s timer may fire.                        *)

NoPath == [run |-> 0, file |-> "null"]

RunId == 1

Path(runId, file) == [run |-> runId, file |-> file]

DiffPathAlways(diffResult, runId) == Path(runId, "diff.png")

\* diffResult.diffPngBytes ? `.../runs/${runId}/diff.png` : null
DiffPathFor(diffResult, runId) ==
    IF diffResult.diffPngBytes # Null THEN Path(runId, "diff.png") ELSE NoPath

NoLocals ==
    [runId |-> 0, currentPath |-> NoPath, diffPath |-> NoPath, resultPath |-> NoPath,
     baselineUrl |-> NoPath, currentUrl |-> NoPath, diffUrl |-> NoPath,
     mismatchPercentage |-> 0, diffPixels |-> 0]

NoResponse ==
    [status |-> 0, error |-> "none", runStatus |-> "none",
     mismatchPercentage |-> 0, diffPixels |-> 0,
     currentUrl |-> NoPath, diffPath |-> NoPath, diffUrl |-> NoPath, aiJson |-> Null]

NoRequest == [images |-> <<>>, percentText |-> 0, diffPixels |-> 0, mentionsDiff |-> FALSE]

\* mismatchPercentage.toFixed(2): hundredths of a percent, from units of 0.0001
Fixed2(p) == (p + 50) \div 100

InsightMessagesCurrentFirst(opts) ==
    [images |-> <<opts.currentUrl, opts.baselineUrl>>
                    \o (IF opts.diffUrl # NoPath THEN <<opts.diffUrl>> ELSE <<>>),
     percentText |-> Fixed2(opts.mismatchPercentage),
     diffPixels |-> opts.diffPixels,
     mentionsDiff |-> opts.diffUrl # NoPath]

\* The user message generateAIInsights builds from its options: the text with
\* the percentage and the pixel count, image 1 baseline, image 2 current, and
\* image 3 (with the line 'Diff highlights: see image 3') when diffUrl is set.
InsightMessages(opts) ==
    [images |-> <<opts.baselineUrl, opts.currentUrl>>
                    \o (IF opts.diffUrl # NoPath THEN <<opts.diffUrl>> ELSE <<>>),
     percentText |-> Fixed2(opts.mismatchPercentage),
     diffPixels |-> opts.diffPixels,
     mentionsDiff |-> opts.diffUrl # NoPath]

\* jsonError(message, status)
JsonError(message, status) == [NoResponse EXCEPT !.status = status, !.error = message]

EdgeIdle ==
    /\ pc = "idle"
    /\ timer = "unset"
    /\ aborted = FALSE
    /\ fetch = "none"
    /\ request = NoRequest
    /\ locals = NoLocals
    /\ storage = {}
    /\ visual_runs = {}
    /\ response = NoResponse
    /\ listed = {}

\* The stages of handleCreateRun before the classifier call at which the
\* environment can make it stop.
StartFailures ==
    {"none", "baseline_not_found", "no_url", "unsafe_url", "capture", "download",
     "upload_current", "upload_diff", "signed_url"}

FailedRowWithoutDiff(l, errorJson) ==
    [id |-> l.runId, status |-> "failed",
     mismatch_percentage |-> l.mismatchPercentage, diff_pixels |-> l.diffPixels,
     current_path |-> l.currentPath, diff_path |-> NoPath,
     result_path |-> l.resultPath, ai_json |-> errorJson]

\* the row inserted in the catch branch of the classifier call
FailedRow(l, errorJson) ==
    [id |-> l.runId, status |-> "failed",
     mismatch_percentage |-> l.mismatchPercentage, diff_pixels |-> l.diffPixels,
     current_path |-> l.currentPath, diff_path |-> l.diffPath,
     result_path |-> l.resultPath, ai_json |-> errorJson]

\* the row inserted after the classifier answered
CompletedRow(l, insights) ==
    [id |-> l.runId, status |-> "completed",
     mismatch_percentage |-> l.mismatchPercentage, diff_pixels |-> l.diffPixels,
     current_path |-> l.currentPath, diff_path |-> l.diffPath,
     result_path |-> l.resultPath, ai_json |-> insights]

AiError == [error |-> TRUE]

\* the Run object of the 201 response
RunResponse(row, l) ==
    [status |-> 201, error |-> "none", runStatus |-> row.status,
     mismatchPercentage |-> row.mismatch_percentage, diffPixels |-> row.diff_pixels,
     currentUrl |-> l.currentUrl, diffPath |-> row.diff_path, diffUrl |-> l.diffUrl,
     aiJson |-> row.ai_json]

\* The catch branch around generateAIInsights: clearTimeout, insert the
\* failed run (the insert's own error is not looked at), answer 500.
AiFailed(l, dbOk) ==
    /\ visual_runs' = IF dbOk THEN visual_runs \cup {FailedRow(l, AiError)} ELSE visual_runs
    /\ response' = JsonError("AI analysis failed", 500)
    /\ pc' = "done"

\* handleCreateRun from the request to the await of generateAIInsights.
HandleCreateRunStart(failAt) ==
    /\ pc = "idle"
    /\ UNCHANGED <<baseline, current, aiEnv, listed, serverVars, concVars, libVars>>
    /\ IF failAt = "baseline_not_found"
       THEN /\ response' = JsonError("Baseline not found", 404)
            /\ pc' = "done"
            /\ UNCHANGED <<cmp, ai, timer, aborted, fetch, request, locals, storage, visual_runs>>
       ELSE IF failAt \in {"no_url", "unsafe_url"}
       THEN /\ response' = JsonError("URL not allowed", 400)
            /\ pc' = "done"
            /\ UNCHANGED <<cmp, ai, timer, aborted, fetch, request, locals, storage, visual_runs>>
       ELSE IF failAt \in {"capture", "download"}
       THEN /\ response' = JsonError("Failed to create run", 500)
            /\ pc' = "done"
            /\ UNCHANGED <<cmp, ai, timer, aborted, fetch, request, locals, storage, visual_runs>>
       ELSE LET diffResult == EdgeComparePngExact(baseline, current) IN
            /\ cmp' = diffResult
            /\ IF diffResult.outcome # "ok"
               THEN /\ response' = JsonError("Image dimensions mismatch", 500)
                    /\ pc' = "done"
                    /\ UNCHANGED <<ai, timer, aborted, fetch, request, locals, storage, visual_runs>>
               ELSE LET currentPath == Path(RunId, "current.png")
                        diffPath == DiffPathFor(diffResult, RunId)
                        l == [runId |-> RunId, currentPath |-> currentPath,
                              diffPath |-> diffPath,
                              resultPath |-> Path(RunId, "result.json"),
                              baselineUrl |-> Path(0, "baseline.png"),
                              currentUrl |-> currentPath, diffUrl |-> diffPath,
                              mismatchPercentage |-> diffResult.mismatchPercentage,
                              diffPixels |-> diffResult.diffPixels]
                        hasDiff == diffResult.diffPngBytes # Null /\ diffPath # NoPath
                    IN
                    IF failAt = "upload_current"
                    THEN /\ response' = JsonError("Storage upload failed", 500)
                         /\ pc' = "done"
                         /\ UNCHANGED <<ai, timer, aborted, fetch, request, locals, storage, visual_runs>>
                    ELSE IF failAt = "upload_diff" /\ hasDiff
                    THEN /\ storage' = storage \cup {currentPath}
                         /\ response' = JsonError("Storage upload failed", 500)
                         /\ pc' = "done"
                         /\ UNCHANGED <<ai, timer, aborted, fetch, request, locals, visual_runs>>
                    ELSE /\ storage' = storage \cup {currentPath}
                                         \cup (IF hasDiff THEN {diffPath} ELSE {})
                         /\ IF failAt = "signed_url"
                            THEN /\ response' = JsonError("Failed to generate signed URL", 500)
                                 /\ pc' = "done"
                                 /\ UNCHANGED <<ai, timer, aborted, fetch, request, locals, visual_runs>>
                            ELSE /\ locals' = l
                                 /\ aborted' = FALSE
                                 /\ IF aiEnv.hasKey
                                    THEN /\ timer' = "armed"
                                         /\ fetch' = "inflight"
                                         /\ request' = InsightMessages(l)
                                         /\ pc' = "awaitAI"
                                         /\ UNCHANGED <<ai, visual_runs, response>>
                                    ELSE \* generateAIInsights throws before any request
                                         /\ timer' = "cleared"
                                         /\ fetch' = "none"
                                         /\ UNCHANGED request
                                         /\ ai' = generateAIInsights(aiEnv)
                                         /\ \E dbOk \in BOOLEAN : AiFailed(l, dbOk)

\* The 30 s timer fires while the handler awaits the classifier:
\* controller.abort().  The controller's signal was handed to nobody, so the
\* request and the handler's await are not affected.
TimerFires ==
    /\ pc = "awaitAI"
    /\ timer = "armed"
    /\ timer' = "fired"
    /\ aborted' = TRUE
    /\ UNCHANGED <<compareVars, insightVars, pc, fetch, request, locals, storage, visual_runs,
                   response, listed, serverVars, concVars, libVars>>

\* The stages after the classifier's answer at which the environment can
\* make the handler stop.
FinishFailures == {"none", "upload_result", "db_insert"}

\* The classifier call settles (answer or network error) and handleCreateRun
\* runs to its response.
HandleCreateRunFinish(failAt) ==
    /\ pc = "awaitAI"
    /\ fetch = "inflight"
    /\ fetch' = "settled"
    /\ timer' = IF timer = "armed" THEN "cleared" ELSE timer
    /\ UNCHANGED <<compareVars, aiEnv, aborted, request, locals, listed, serverVars, concVars, libVars>>
    /\ LET result == generateAIInsights(aiEnv) IN
       /\ ai' = result
       /\ IF result.outcome = "threw"
          THEN /\ AiFailed(locals, failAt # "db_insert")
               /\ UNCHANGED storage
          ELSE IF failAt = "upload_result"
          THEN /\ response' = JsonError("Storage upload failed", 500)
               /\ pc' = "done"
               /\ UNCHANGED <<storage, visual_runs>>
          ELSE /\ storage' = storage \cup {locals.resultPath}
               /\ IF failAt = "db_insert"
                  THEN /\ response' = JsonError("Database insert failed", 500)
                       /\ pc' = "done"
                       /\ UNCHANGED visual_runs
                  ELSE LET row == CompletedRow(locals, result.value) IN
                       /\ visual_runs' = visual_runs \cup {row}
                       /\ response' = RunResponse(row, locals)
                       /\ pc' = "done"

\* handleListRuns: every row of the baseline with signed URLs for its
\* current and (when diff_path is set) diff image.
HandleListRuns ==
    /\ pc = "done"
    /\ listed' = {[id |-> row.id, status |-> row.status,
                   mismatchPercentage |-> row.mismatch_percentage,
                   diffPixels |-> row.diff_pixels,
                   currentPath |-> row.current_path, diffPath |-> row.diff_path,
                   aiJson |-> row.ai_json,
                   currentUrl |-> row.current_path,
                   diffUrl |-> row.diff_path] : row \in visual_runs}
    /\ UNCHANGED <<compareVars, insightVars, pc, timer, aborted, fetch, request, locals, storage,
                   visual_runs, response, serverVars, concVars, libVars>>

-----------------------------------------------------------------------------
(* The Express create-run route (server/visual/types.ts, router.post        *)
(* '/baselines/:baselineId/runs'), which runs the byte-exact comparison.    *)

NoServerResponse ==
    [status |-> 0, runStatus |-> "none", errorCode |-> "none",
     mismatchPixelCount |-> 0, totalPixels |-> 0, mismatchPercent |-> <<0, 1>>,
     current |-> NoPath, diff |-> NoPath, saved |-> FALSE]

\* the run ids a client asks for: the created run and one that does not exist
FetchIds == {RunId, RunId + 1}

NoFetch == [runId |-> 0, status |-> 0, body |-> Null, afterCreate |-> FALSE]

ServerIdle ==
    /\ serverFiles = {}
    /\ serverResponse = NoServerResponse
    /\ resultFiles = <<>>
    /\ fetched = NoFetch

\* No concurrent run creation has started.
ConcIdle ==
    /\ runs = <<>>
    /\ disk = <<>>

\* checkRateLimit has not been called since the module was loaded.
RateIdle ==
    /\ clock = 0
    /\ limitEnv = Undefined
    /\ rateLimitStore = <<>>
    /\ calls = <<>>

\* No baseline has been saved below the Express server's storage root.
IndexIdle ==
    /\ indexFile = [exists |-> FALSE, entries |-> {}]
    /\ projectFiles = <<>>
    /\ metaFiles = {}
    /\ saves = <<>>

\* No library function has been exercised.
LibIdle ==
    /\ sweep = <<>>
    /\ urlCheck = Null
    /\ RateIdle
    /\ IndexIdle
    /\ admission = Null

\* Where the route can leave the straight path.  "capture_save": the capture
\* fails and the write of the ERROR result fails too; "save": the write of
\* the result after the comparison fails.
ServerStops ==
    {"none", "baseline_not_found", "bad_body", "capture", "unreadable_png",
     "capture_save", "save"}

\* The last saveRunResult is awaited outside the try block: its rejection
\* leaves the async handler.  Depending on the Express version and the
\* process settings no response is sent, or an error handler answers 500.
Unanswered == [NoServerResponse EXCEPT !.errorCode = "unhandled_rejection"]

ServerError == [NoServerResponse EXCEPT !.status = 500]

ErrorResultKeepingDiff(code, currentRef) ==
    [status |-> 201, runStatus |-> "ERROR", errorCode |-> code,
     mismatchPixelCount |-> 0, totalPixels |-> 0, mismatchPercent |-> <<0, 1>>,
     current |-> currentRef, diff |-> Path(RunId, "diff.png"), saved |-> TRUE]

\* status 'ERROR' results: metrics all 0, artifacts.diff null
ErrorResult(code, currentRef) ==
    [status |-> 201, runStatus |-> "ERROR", errorCode |-> code,
     mismatchPixelCount |-> 0, totalPixels |-> 0, mismatchPercent |-> <<0, 1>>,
     current |-> currentRef, diff |-> NoPath, saved |-> TRUE]

CompareResultAlwaysPass(metrics, runId) ==
    [status |-> 201, runStatus |-> "PASS",
     errorCode |-> "null",
     mismatchPixelCount |-> metrics.mismatchPixelCount,
     totalPixels |-> metrics.totalPixels,
     mismatchPercent |-> metrics.mismatchPercent,
     current |-> Path(runId, "current.png"), diff |-> Path(runId, "diff.png"),
     saved |-> TRUE]

\* the result built after comparePngExact returned
CompareResult(metrics, runId) ==
    [status |-> 201, runStatus |-> IF metrics.pass THEN "PASS" ELSE "FAIL",
     errorCode |-> "null",
     mismatchPixelCount |-> metrics.mismatchPixelCount,
     totalPixels |-> metrics.totalPixels,
     mismatchPercent |-> metrics.mismatchPercent,
     current |-> Path(runId, "current.png"), diff |-> Path(runId, "diff.png"),
     saved |-> TRUE]

\* the VisualRunResult of a 201 response
ResultBody(resp) ==
    [runId |-> RunId, status |-> resp.runStatus, errorCode |-> resp.errorCode,
     mismatchPixelCount |-> resp.mismatchPixelCount, totalPixels |-> resp.totalPixels,
     mismatchPercent |-> resp.mismatchPercent, current |-> resp.current, diff |-> resp.diff]

JsonRoundTripLosingErrorCode(result) == [result EXCEPT !.errorCode = "null"]

\* JSON.parse(JSON.stringify(result, null, 2)): strings, finite numbers and
\* null come back as they were; a NaN (a fraction over 0) comes back as null
JsonRoundTrip(result) ==
    [result EXCEPT !.mismatchPercent =
        IF result.mismatchPercent[2] = 0 THEN Null ELSE result.mismatchPercent]

\* saveRunResult: writeJsonFile(runResultJsonPath(..., result.runId), result)
saveRunResult(files, result) ==
    [k \in DOMAIN files \cup {result.runId} |->
        IF k = result.runId THEN JsonRoundTrip(result) ELSE files[k]]

\* getRunResult: null when the file does not exist, else the parsed file
getRunResult(files, runId) ==
    IF runId \notin DOMAIN files THEN Null ELSE files[runId]

ServerCreateRun(stop) ==
    /\ serverResponse = NoServerResponse
    /\ UNCHANGED <<baseline, current, insightVars, edgeVars, concVars, libVars, fetched>>
    /\ IF stop = "baseline_not_found"
       THEN /\ serverResponse' = [NoServerResponse EXCEPT !.status = 404]
            /\ UNCHANGED <<cmp, serverFiles>>
       ELSE IF stop = "bad_body"
       THEN /\ serverResponse' = [NoServerResponse EXCEPT !.status = 400]
            /\ UNCHANGED <<cmp, serverFiles>>
       ELSE IF stop = "capture"
       THEN \* no current.png was written, so artifacts.current is ''
            /\ serverResponse' = ErrorResult("CAPTURE_FAILED", NoPath)
            /\ serverFiles' = serverFiles \cup {Path(RunId, "result.json")}
            /\ UNCHANGED cmp
       ELSE IF stop = "capture_save"
       THEN \* the outer catch answers
            /\ serverResponse' = ServerError
            /\ UNCHANGED <<cmp, serverFiles>>
       ELSE IF stop = "unreadable_png"
       THEN /\ serverResponse' = ErrorResult("COMPARE_FAILED", Path(RunId, "current.png"))
            /\ serverFiles' = serverFiles \cup {Path(RunId, "current.png"),
                                                Path(RunId, "result.json")}
            /\ UNCHANGED cmp
       ELSE LET metrics == ServerComparePngExact(baseline, current) IN
            /\ cmp' = metrics
            /\ IF stop = "save"
               THEN /\ serverResponse' \in {Unanswered, ServerError}
                    /\ serverFiles' = serverFiles \cup {Path(RunId, "current.png")}
                                         \cup (IF metrics.outcome = "ok"
                                               THEN {Path(RunId, "diff.png")} ELSE {})
               ELSE IF metrics.outcome = "ok"
               THEN /\ serverResponse' = CompareResult(metrics, RunId)
                    /\ serverFiles' = serverFiles \cup {Path(RunId, "current.png"),
                                                        Path(RunId, "diff.png"),
                                                        Path(RunId, "result.json")}
               ELSE /\ serverResponse' =
                          ErrorResult("DIMENSION_MISMATCH", Path(RunId, "current.png"))
                    /\ serverFiles' = serverFiles \cup {Path(RunId, "current.png"),
                                                        Path(RunId, "result.json")}
    /\ resultFiles' = IF serverResponse'.saved
                      THEN saveRunResult(resultFiles, ResultBody(serverResponse'))
                      ELSE resultFiles

\* router.get('/baselines/:baselineId/runs/:runId'): 404 without the baseline
\* or the result file, else 200 with the parsed file
ServerGetRun(runId, baselineFound) ==
    /\ fetched = NoFetch
    /\ LET result == IF baselineFound THEN getRunResult(resultFiles, runId) ELSE Null
       IN fetched' = [runId |-> runId,
                      status |-> IF result = Null THEN 404 ELSE 200,
                      body |-> result,
                      afterCreate |-> baselineFound /\ serverResponse.status = 201]
    /\ UNCHANGED <<compareVars, insightVars, edgeVars, serverFiles, serverResponse,
                   resultFiles, concVars, libVars>>

-----------------------------------------------------------------------------
(* Comparison specification: the inputs are drawn in the initial state and  *)
(* each action applies one implementation to them.                          *)

NotCompared == [impl |-> "none", outcome |-> "none",
                visited |-> 0, returned |-> FALSE, diffWritten |-> FALSE]

InitCompare ==
    /\ baseline \in Images
    /\ current \in Images
    /\ cmp = NotCompared
    /\ aiEnv = NoAiEnv
    /\ ai = NotCalled
    /\ EdgeIdle
    /\ ServerIdle
    /\ ConcIdle
    /\ LibIdle

ServerCompare ==
    /\ cmp' = ServerComparePngExact(baseline, current)
    /\ baseline' = Stored(baseline, "baseline", Stores("server", baseline, current))
    /\ current' = Stored(current, "current", Stores("server", baseline, current))
    /\ UNCHANGED <<insightVars, edgeVars, serverVars, concVars, libVars>>

EdgeCompare ==
    /\ cmp' = EdgeComparePngExact(baseline, current)
    /\ baseline' = Stored(baseline, "baseline", Stores("edge", baseline, current))
    /\ current' = Stored(current, "current", Stores("edge", baseline, current))
    /\ UNCHANGED <<insightVars, edgeVars, serverVars, concVars, libVars>>

TwoToneCompare ==
    /\ cmp' = TwoToneComparePngExact(baseline, current)
    /\ baseline' = Stored(baseline, "baseline", Stores("twotone", baseline, current))
    /\ current' = Stored(current, "current", Stores("twotone", baseline, current))
    /\ UNCHANGED <<insightVars, edgeVars, serverVars, concVars, libVars>>

NextCompare == ServerCompare \/ EdgeCompare \/ TwoToneCompare

SpecCompare == InitCompare /\ [][NextCompare]_vars

-----------------------------------------------------------------------------
(* Noise specification: the current image is the baseline with every       *)
(* channel moved by at most 2 units; the same three implementations run.   *)

InitNoise ==
    /\ \E b \in NoiseBases, off \in NoiseOffsets :
          /\ baseline = MkImage(2, 1, <<b, b>>)
          /\ current = MkImage(2, 1, <<Shifted(b, off), Shifted(b, Negated(off))>>)
    /\ cmp = NotCompared
    /\ aiEnv = NoAiEnv
    /\ ai = NotCalled
    /\ EdgeIdle
    /\ ServerIdle
    /\ ConcIdle
    /\ LibIdle

SpecNoise == InitNoise /\ [][NextCompare]_vars

-----------------------------------------------------------------------------
(* Insight specification: the key and the classifier reply are drawn in    *)
(* the initial state and each action applies one implementation.           *)

InitInsight ==
    /\ aiEnv \in AiEnvs
    /\ ai = NotCalled
    /\ baseline = MkImage(1, 1, <<Black>>)
    /\ current = MkImage(1, 1, <<Black>>)
    /\ cmp = NotCompared
    /\ EdgeIdle
    /\ ServerIdle
    /\ ConcIdle
    /\ LibIdle

CallGenerateAIInsights ==
    /\ ai' = generateAIInsights(aiEnv)
    /\ UNCHANGED <<aiEnv, compareVars, edgeVars, serverVars, concVars, libVars>>

CallGenerateAIInsightsLogged ==
    /\ ai' = generateAIInsightsLogged(aiEnv)
    /\ UNCHANGED <<aiEnv, compareVars, edgeVars, serverVars, concVars, libVars>>

NextInsight == CallGenerateAIInsights \/ CallGenerateAIInsightsLogged

SpecInsight == InitInsight /\ [][NextInsight]_vars

-----------------------------------------------------------------------------
(* Run specification: the images and the classifier's behaviour are drawn  *)
(* in the initial state; the edge handler and the Express route each        *)
(* serve one create-run request.                                            *)

RunImages == {img \in SmallImages : \A p \in DOMAIN img.data : img.data[p] \in {Black, White}}

RunReplies ==
    {NonObject("network_error"), NonObject("http_error"),
     [kind |-> "object", severity |-> "minor", issues |-> "some",
      summary |-> "present", quickWins |-> "present"],
     [kind |-> "object", severity |-> "fail", issues |-> "empty",
      summary |-> "present", quickWins |-> "present"]}

InitRun ==
    /\ baseline \in RunImages
    /\ current \in RunImages
    /\ cmp = NotCompared
    /\ aiEnv \in [hasKey : BOOLEAN, reply : RunReplies]
    /\ ai = NotCalled
    /\ EdgeIdle
    /\ ServerIdle
    /\ ConcIdle
    /\ LibIdle

NextRun ==
    \/ \E failAt \in StartFailures : HandleCreateRunStart(failAt)
    \/ TimerFires
    \/ \E failAt \in FinishFailures : HandleCreateRunFinish(failAt)
    \/ HandleListRuns
    \/ \E stop \in ServerStops : ServerCreateRun(stop)
    \/ \E runId \in FetchIds : \E baselineFound \in BOOLEAN : ServerGetRun(runId, baselineFound)

SpecRun == InitRun /\ [][NextRun]_vars

-----------------------------------------------------------------------------
(* Concurrent run creation.  Several create-run requests for one baseline   *)
(* are served at the same time, each by the Express route or by the edge    *)
(* handler; every await of a handler is a point where the others may run.   *)
(* The files below the Express storage root and the objects of the edge     *)
(* bucket are shared; everything else is local to a request.  The           *)
(* classifier answers every edge run with the same valid insights.          *)

MaxRuns == 2

\* the values uuidv4() / crypto.randomUUID() can return
RunIds == 1..MaxRuns

ConcImages == {MkImage(1, 1, <<Black>>), MkImage(1, 1, <<White>>), MkImage(2, 1, <<Black, White>>)}

FileKey(store, runId, file) == [store |-> store, run |-> runId, file |-> file]

baselinePngPath == FileKey("fs", 0, "baseline.png")

runCurrentPngPathShared(runId) == FileKey("fs", 1, "current.png")

runCurrentPngPath(runId) == FileKey("fs", runId, "current.png")

runDiffPngPath(runId) == FileKey("fs", runId, "diff.png")

runResultJsonPath(runId) == FileKey("fs", runId, "result.json")

\* baseline.baseline_path and the `${...}/runs/${runId}/...` paths of the bucket
BucketBaseline == FileKey("bucket", 0, "baseline.png")

BucketKey(path) == FileKey("bucket", path.run, path.file)

\* fs.writeFile / upload with upsert: create or replace
Put(d, k, v) == [x \in DOMAIN d \cup {k} |-> IF x = k THEN v ELSE d[x]]

IdleRun ==
    [pipeline |-> "none", pc |-> "idle", runId |-> 0, captured |-> Null,
     metrics |-> NotCompared, result |-> Null]

\* run ids handed out so far; a fresh uuid is none of them
UsedIds == {runs[r].runId : r \in DOMAIN runs} \ {0}

ValidInsights ==
    [kind |-> "object", severity |-> "minor", issues |-> "some",
     summary |-> "present", quickWins |-> "present"]

\* the paths and metrics handleCreateRun keeps after comparePngExact
EdgeRunLocals(diffResult, runId) ==
    LET diffPath == DiffPathFor(diffResult, runId) IN
    [runId |-> runId, currentPath |-> Path(runId, "current.png"),
     diffPath |-> diffPath, resultPath |-> Path(runId, "result.json"),
     baselineUrl |-> Path(0, "baseline.png"),
     currentUrl |-> Path(runId, "current.png"), diffUrl |-> diffPath,
     mismatchPercentage |-> diffResult.mismatchPercentage,
     diffPixels |-> diffResult.diffPixels]

\* result.json of the edge handler
EdgeResultJson(l) ==
    [mismatchPercentage |-> l.mismatchPercentage, diffPixels |-> l.diffPixels,
     baselineUrl |-> l.baselineUrl, currentUrl |-> l.currentUrl, diffUrl |-> l.diffUrl,
     ai |-> ValidInsights]

ConcUnchanged == UNCHANGED <<compareVars, insightVars, pc, timer, aborted, fetch, request,
                             locals, storage, response, listed, serverVars, libVars>>

\* Express: the synchronous prefix up to the first await; runId = uuidv4().
ServerRunStart(r) ==
    /\ runs[r].pc = "idle"
    /\ \E id \in RunIds \ UsedIds :
          runs' = [runs EXCEPT ![r] = [@ EXCEPT !.pipeline = "express", !.runId = id,
                                                !.pc = "capture"]]
    /\ UNCHANGED <<disk, visual_runs>>
    /\ ConcUnchanged

\* Express: captureScreenshot({..., outputPath: currentPath})
ServerRunCapture(r, img) ==
    /\ runs[r].pipeline = "express"
    /\ runs[r].pc = "capture"
    /\ disk' = Put(disk, runCurrentPngPath(runs[r].runId), img)
    /\ runs' = [runs EXCEPT ![r] = [@ EXCEPT !.captured = img, !.pc = "compare"]]
    /\ UNCHANGED visual_runs
    /\ ConcUnchanged

\* Express: comparePngExact reads both files and compares them.
ServerRunCompare(r) ==
    /\ runs[r].pipeline = "express"
    /\ runs[r].pc = "compare"
    /\ LET metrics == ServerComparePngExact(disk[baselinePngPath],
                                            disk[runCurrentPngPath(runs[r].runId)])
       IN runs' = [runs EXCEPT ![r] =
                     [@ EXCEPT !.metrics = metrics,
                               !.result = IF metrics.outcome = "ok"
                                          THEN CompareResult(metrics, runs[r].runId)
                                          ELSE ErrorResult("DIMENSION_MISMATCH",
                                                           Path(runs[r].runId, "current.png")),
                               !.pc = IF metrics.outcome = "ok" THEN "writeDiff" ELSE "save"]]
    /\ UNCHANGED <<disk, visual_runs>>
    /\ ConcUnchanged

\* Express: comparePngExact writes the diff PNG to diffPath.
ServerRunWriteDiff(r) ==
    /\ runs[r].pipeline = "express"
    /\ runs[r].pc = "writeDiff"
    /\ disk' = Put(disk, runDiffPngPath(runs[r].runId), runs[r].metrics.diffFile)
    /\ runs' = [runs EXCEPT ![r] = [@ EXCEPT !.pc = "save"]]
    /\ UNCHANGED visual_runs
    /\ ConcUnchanged

\* Express: saveRunResult, then the 201 response.
ServerRunSave(r) ==
    /\ runs[r].pipeline = "express"
    /\ runs[r].pc = "save"
    /\ disk' = Put(disk, runResultJsonPath(runs[r].runId), runs[r].result)
    /\ runs' = [runs EXCEPT ![r] = [@ EXCEPT !.pc = "done"]]
    /\ UNCHANGED visual_runs
    /\ ConcUnchanged

\* Edge: captureScreenshot returns the bytes of the current screenshot.
EdgeRunCapture(r, img) ==
    /\ runs[r].pc = "idle"
    /\ runs' = [runs EXCEPT ![r] = [@ EXCEPT !.pipeline = "edge", !.captured = img,
                                            !.pc = "compare"]]
    /\ UNCHANGED <<disk, visual_runs>>
    /\ ConcUnchanged

\* Edge: downloadFile(baseline.baseline_path), comparePngExact on the two
\* buffers, runId = crypto.randomUUID().
EdgeRunCompare(r) ==
    /\ runs[r].pipeline = "edge"
    /\ runs[r].pc = "compare"
    /\ LET diffResult == EdgeComparePngExact(disk[BucketBaseline], runs[r].captured) IN
       IF diffResult.outcome # "ok"
       THEN runs' = [runs EXCEPT ![r] =
                       [@ EXCEPT !.metrics = diffResult,
                                 !.result = JsonError("Image dimensions mismatch", 500),
                                 !.pc = "done"]]
       ELSE \E id \in RunIds \ UsedIds :
               runs' = [runs EXCEPT ![r] =
                          [@ EXCEPT !.metrics = diffResult, !.runId = id,
                                    !.pc = "uploadCurrent"]]
    /\ UNCHANGED <<disk, visual_runs>>
    /\ ConcUnchanged

\* Edge: uploadFile(currentPath, currentBytes)
EdgeRunUploadCurrent(r) ==
    /\ runs[r].pipeline = "edge"
    /\ runs[r].pc = "uploadCurrent"
    /\ disk' = Put(disk, BucketKey(Path(runs[r].runId, "current.png")), runs[r].captured)
    /\ runs' = [runs EXCEPT ![r] = [@ EXCEPT !.pc = "uploadDiff"]]
    /\ UNCHANGED visual_runs
    /\ ConcUnchanged

\* Edge: uploadFile(diffPath, diffResult.diffPngBytes) when there is a diff
EdgeRunUploadDiff(r) ==
    /\ runs[r].pipeline = "edge"
    /\ runs[r].pc = "uploadDiff"
    /\ LET diffPath == DiffPathFor(runs[r].metrics, runs[r].runId) IN
       disk' = IF runs[r].metrics.diffPngBytes # Null /\ diffPath # NoPath
               THEN Put(disk, BucketKey(diffPath), runs[r].metrics.diffPngBytes)
               ELSE disk
    /\ runs' = [runs EXCEPT ![r] = [@ EXCEPT !.pc = "uploadResult"]]
    /\ UNCHANGED visual_runs
    /\ ConcUnchanged

\* Edge: the classifier has answered; uploadFile(resultPath, resultBytes)
EdgeRunUploadResult(r) ==
    /\ runs[r].pipeline = "edge"
    /\ runs[r].pc = "uploadResult"
    /\ LET l == EdgeRunLocals(runs[r].metrics, runs[r].runId) IN
       disk' = Put(disk, BucketKey(l.resultPath), EdgeResultJson(l))
    /\ runs' = [runs EXCEPT ![r] = [@ EXCEPT !.pc = "insert"]]
    /\ UNCHANGED visual_runs
    /\ ConcUnchanged

\* Edge: insert into visual_runs, then the 201 response.
EdgeRunInsert(r) ==
    /\ runs[r].pipeline = "edge"
    /\ runs[r].pc = "insert"
    /\ LET l == EdgeRunLocals(runs[r].metrics, runs[r].runId)
           row == CompletedRow(l, ValidInsights)
       IN /\ visual_runs' = visual_runs \cup {row}
          /\ runs' = [runs EXCEPT ![r] = [@ EXCEPT !.result = RunResponse(row, l),
                                                  !.pc = "done"]]
    /\ UNCHANGED disk
    /\ ConcUnchanged

InitConcurrent ==
    /\ baseline \in ConcImages
    /\ current = baseline
    /\ cmp = NotCompared
    /\ aiEnv = NoAiEnv
    /\ ai = NotCalled
    /\ EdgeIdle
    /\ ServerIdle
    /\ runs = [r \in 1..MaxRuns |-> IdleRun]
    /\ disk = (baselinePngPath :> baseline) @@ (BucketBaseline :> baseline)
    /\ LibIdle

NextConcurrent ==
    \E r \in 1..MaxRuns :
        \/ ServerRunStart(r)
        \/ \E img \in ConcImages : ServerRunCapture(r, img)
        \/ ServerRunCompare(r)
        \/ ServerRunWriteDiff(r)
        \/ ServerRunSave(r)
        \/ \E img \in ConcImages : EdgeRunCapture(r, img)
        \/ EdgeRunCompare(r)
        \/ EdgeRunUploadCurrent(r)
        \/ EdgeRunUploadDiff(r)
        \/ EdgeRunUploadResult(r)
        \/ EdgeRunInsert(r)

SpecConcurrent == InitConcurrent /\ [][NextConcurrent]_vars

-----------------------------------------------------------------------------
(* Properties of the comparison                                            *)

SizesDiffer == baseline.width # current.width \/ baseline.height # current.height

\* C1: when baseline and current differ in size, the server's comparePngExact
\* fails with DimensionMismatchError before any pixel is visited: nothing is
\* returned and no diff image is written.
C1_DimensionGuard ==
    (cmp.impl = "server" /\ SizesDiffer) =>
        /\ cmp.outcome = "DimensionMismatchError"
        /\ cmp.visited = 0
        /\ ~cmp.returned
        /\ ~cmp.diffWritten

C1_Witness ==
    /\ cmp.impl = "server"
    /\ SizesDiffer
    /\ baseline.width = current.width
    /\ cmp.outcome = "DimensionMismatchError"

\* The diff image an implementation produced, or Null.
ProducedDiff ==
    IF cmp.outcome # "ok" THEN Null
    ELSE IF cmp.impl = "server" THEN cmp.diffFile
    ELSE cmp.diffPngBytes

\* The positions the implementation classified as mismatches.
Mismatched ==
    IF cmp.impl = "server"
    THEN {p \in 1..TotalPixels(baseline) : baseline.data[p] # current.data[p]}
    ELSE cmp.flagged

MismatchCount == IF cmp.impl = "server" THEN cmp.mismatchPixelCount ELSE cmp.diffPixels

\* C2: in every diff image produced, pixels not classified as mismatches are
\* fully transparent and mismatched pixels have nonzero alpha, so the number
\* of non-transparent pixels equals the mismatch count.
C2_UnmatchedTransparent ==
    ProducedDiff # Null =>
        /\ \A p \in DOMAIN ProducedDiff.data :
              (p \in Mismatched) <=> (ProducedDiff.data[p][4] # 0)
        /\ Cardinality({p \in DOMAIN ProducedDiff.data : ProducedDiff.data[p][4] # 0})
              = MismatchCount

IsGreen(px) == px[4] # 0 /\ px[2] > px[1] /\ px[2] > px[3]

IsRed(px) == px[4] # 0 /\ px[1] > px[2] /\ px[1] > px[3]

Darker(p1, p2) == Brightness3(p1) < Brightness3(p2)

\* C3: every flagged pixel that is not noise is green when the baseline pixel
\* is darker than the current one and red when the current pixel is darker.
C3_DirectionalColours ==
    (cmp.impl \in {"edge", "twotone"} /\ ProducedDiff # Null) =>
        \A p \in cmp.flagged :
            Dist(baseline.data[p], current.data[p]) >= NoiseDistance =>
                /\ Darker(baseline.data[p], current.data[p]) => IsGreen(ProducedDiff.data[p])
                /\ Darker(current.data[p], baseline.data[p]) => IsRed(ProducedDiff.data[p])

\* C4: black 10x10 baseline against the same image with a 2x2 white patch at
\* (0,0): 4 of 100 pixels mismatch, 4.0 percent, not a pass, and the diff has
\* exactly the 4 patch pixels green and the other 96 fully transparent.
C4_EndToEndScenario ==
    (baseline = Black10 /\ current = Patch10 /\ cmp.impl # "none") =>
        /\ cmp.outcome = "ok"
        /\ MismatchCount = 4
        /\ TotalPixels(baseline) = 100
        /\ IF cmp.impl = "server"
           THEN /\ cmp.totalPixels = 100
                /\ cmp.mismatchPercent[1] = 4 * cmp.mismatchPercent[2]
                /\ cmp.pass = FALSE
           ELSE cmp.mismatchPercentage = 40000
        /\ ProducedDiff # Null
        /\ \A p \in 1..100 :
              IF InPatch(p) THEN IsGreen(ProducedDiff.data[p])
              ELSE ProducedDiff.data[p][4] = 0

\* C6 as stated: comparing an image against itself yields no mismatch,
\* 0 percent, a pass, and no diff image.
C6_SelfCompareNoDiffImage ==
    (baseline = current /\ cmp.impl # "none") =>
        /\ cmp.outcome = "ok"
        /\ MismatchCount = 0
        /\ IF cmp.impl = "server"
           THEN cmp.mismatchPercent[1] = 0 /\ cmp.pass /\ ~cmp.diffWritten
           ELSE cmp.mismatchPercentage = 0 /\ cmp.diffPngBytes = Null

\* C6 amended: comparing an image against itself yields no mismatch, 0 percent
\* and a pass; the edge implementations produce no diff image, the server
\* implementation writes a diff image whose pixels are all fully transparent.
C6_SelfCompare ==
    (baseline = current /\ cmp.impl # "none") =>
        /\ cmp.outcome = "ok"
        /\ MismatchCount = 0
        /\ IF cmp.impl = "server"
           THEN /\ cmp.mismatchPercent[1] = 0
                /\ cmp.pass
                /\ cmp.diffWritten
                /\ \A p \in DOMAIN cmp.diffFile.data : cmp.diffFile.data[p][4] = 0
           ELSE cmp.mismatchPercentage = 0 /\ cmp.diffPngBytes = Null

C6_Witness ==
    /\ baseline = current
    /\ TotalPixels(baseline) > 1
    /\ baseline.data[1] # baseline.data[2]
    /\ cmp.impl = "server"
    /\ cmp.outcome = "ok"
    /\ cmp.diffWritten

-----------------------------------------------------------------------------
(* Properties of generateAIInsights                                         *)

\* The response schema: summary, severity from the four-level enum, an
\* issues array and quickWins are all required.
SchemaValid(reply) ==
    /\ reply.kind = "object"
    /\ reply.severity \in {"pass", "minor", "major", "critical"}
    /\ reply.issues \in {"empty", "some"}
    /\ reply.summary = "present"
    /\ reply.quickWins = "present"

\* C7: whenever the classifier is unreachable, answers with a non-success
\* status, returns no content, or returns content that fails schema
\* validation, generateAIInsights fails with an error; it never returns
\* null or an absent value.
C7_FailuresPropagate ==
    ai.impl # "none" =>
        /\ ~SchemaValid(aiEnv.reply) => ai.outcome = "threw"
        /\ ai.outcome = "returned" => ai.value # Null

\* C8: every value generateAIInsights returns has a severity in
\* {pass, minor, major, critical} and a non-null issues array; a reply that
\* lacks a required field or has another severity is rejected with an error.
C8_SchemaStrictness ==
    ai.impl # "none" =>
        /\ ai.outcome = "returned" =>
              /\ ai.value.severity \in {"pass", "minor", "major", "critical"}
              /\ ai.value.issues \in {"empty", "some"}
        /\ (aiEnv.hasKey /\ aiEnv.reply.kind = "object" /\ ~SchemaValid(aiEnv.reply)) =>
              ai.outcome = "threw"

-----------------------------------------------------------------------------
(* Properties of run creation                                              *)

EdgeRowConsistent(row) == (row.diff_path # NoPath) <=> (row.diff_pixels > 0)

\* C5 as stated: a diff image exists if and only if the mismatch count is
\* greater than 0, in every comparison result and in every run made from it.
C5_DiffIffMismatchEverywhere ==
    /\ cmp.outcome = "ok" => ((ProducedDiff # Null) <=> (MismatchCount > 0))
    /\ \A row \in visual_runs : EdgeRowConsistent(row)
    /\ response.status = 201 =>
          /\ (response.diffPath # NoPath) <=> (response.diffPixels > 0)
          /\ (response.diffUrl # NoPath) <=> (response.diffPixels > 0)
    /\ serverResponse.runStatus \in {"PASS", "FAIL"} =>
          ((serverResponse.diff # NoPath) <=> (serverResponse.mismatchPixelCount > 0))

\* C5 amended: in the edge pipeline the diff bytes, the stored diff path and
\* the returned diff reference are null when the mismatch count is 0 and
\* present when it is greater than 0; the Express server writes a diff image
\* after every successful comparison and every PASS or FAIL result refers to
\* it, whatever the count, and only ERROR results have a null diff.
C5_DiffIffMismatch ==
    /\ (cmp.impl = "edge" /\ cmp.outcome = "ok") =>
          ((cmp.diffPngBytes # Null) <=> (cmp.diffPixels > 0))
    /\ \A row \in visual_runs :
          /\ EdgeRowConsistent(row)
          /\ row.diff_path # NoPath => row.diff_path \in storage
    /\ \A r \in listed : (r.diffUrl # NoPath) <=> (r.diffPixels > 0)
    /\ response.status = 201 =>
          /\ (response.diffPath # NoPath) <=> (response.diffPixels > 0)
          /\ (response.diffUrl # NoPath) <=> (response.diffPixels > 0)
    /\ (cmp.impl = "server" /\ cmp.outcome = "ok") => cmp.diffWritten
    /\ serverResponse.runStatus \in {"PASS", "FAIL"} =>
          /\ serverResponse.diff # NoPath
          /\ serverResponse.diff \in serverFiles
    /\ serverResponse.runStatus = "ERROR" => serverResponse.diff = NoPath

C5_Witness ==
    /\ response.status = 201
    /\ response.diffPixels = 0
    /\ response.diffUrl = NoPath
    /\ visual_runs # {}
    /\ serverResponse.runStatus = "PASS"
    /\ serverResponse.diff # NoPath

\* C9: the classifier call is bounded by the 30 s timeout: once the timer
\* has fired, the request is no longer in flight and the handler is no longer
\* waiting for it.
C9_ClassifierTimeout ==
    timer = "fired" => (fetch # "inflight" /\ pc # "awaitAI")

InsightFailed == pc = "done" /\ ai.outcome = "threw"

-----------------------------------------------------------------------------
(* Properties of the outcome reported for a run                            *)

\* C11: in every run-creation path a comparison that fails because the sizes
\* differ is reported as a dimension-mismatch outcome, distinguished by kind
\* (error code DIMENSION_MISMATCH, never a generic error), and no pixel of a
\* resized or cropped image is compared.
C11_DimensionMismatchKind ==
    /\ (cmp.impl \in {"server", "edge"} /\ SizesDiffer) =>
          /\ cmp.outcome = "DimensionMismatchError"
          /\ cmp.visited = 0
    /\ (serverResponse.status = 201 /\ cmp.impl = "server" /\ SizesDiffer) =>
          /\ serverResponse.runStatus = "ERROR"
          /\ serverResponse.errorCode = "DIMENSION_MISMATCH"
    /\ (pc = "done" /\ cmp.impl = "edge" /\ SizesDiffer) =>
          /\ response.runStatus = "ERROR"
          /\ response.error = "DIMENSION_MISMATCH"

\* The mismatch count of the two images, pixel by pixel.
ExactCount == Cardinality({p \in 1..TotalPixels(baseline) : baseline.data[p] # current.data[p]})

PercentIsExact ==
    IF cmp.impl = "server"
    THEN cmp.mismatchPercent[1] * cmp.totalPixels
            = cmp.mismatchPixelCount * 100 * cmp.mismatchPercent[2]
    ELSE cmp.mismatchPercentage * TotalPixels(baseline) = cmp.diffPixels * 1000000

\* C13 as stated: the mismatch percentage always equals count / total * 100,
\* is 0 when the total is 0, and a 2x2 pair with 1 of 4 pixels mismatching
\* yields 25 percent and no pass.
C13_PercentExactEverywhere ==
    /\ ExactPercent(0, 0)[1] = 0
    /\ RoundedPercent(0, 0) = 0
    /\ cmp.outcome = "ok" => PercentIsExact

\* C13 amended: the server's mismatchPercent equals count / total * 100, the
\* edge implementations report that value rounded to four decimals (at most
\* 0.00005 away from it); both are 0 when the total is 0; a 2x2 pair with 1 of
\* 4 pixels mismatching yields 25 percent and, on the server, pass false.
C13_Percent ==
    /\ ExactPercent(0, 0)[1] = 0
    /\ ExactPercent(0, 0)[2] # 0
    /\ RoundedPercent(0, 0) = 0
    /\ (cmp.impl = "server" /\ cmp.outcome = "ok") =>
          /\ PercentIsExact
          /\ cmp.mismatchPercent[2] # 0
          /\ cmp.totalPixels = TotalPixels(baseline)
          /\ cmp.mismatchPixelCount = ExactCount
    /\ (cmp.impl \in {"edge", "twotone"} /\ cmp.outcome = "ok") =>
          2 * Abs(cmp.mismatchPercentage * TotalPixels(baseline) - cmp.diffPixels * 1000000)
              <= TotalPixels(baseline)
    /\ (cmp.outcome = "ok" /\ TotalPixels(baseline) = 4 /\ MismatchCount = 1) =>
          IF cmp.impl = "server"
          THEN cmp.mismatchPercent[1] = 25 * cmp.mismatchPercent[2] /\ ~cmp.pass
          ELSE cmp.mismatchPercentage = 250000
    /\ (baseline = OnePixelBase /\ current = OnePixelCurrent /\ cmp.impl = "server") =>
          cmp.mismatchPixelCount = 1

C13_Witness ==
    /\ baseline = OnePixelBase
    /\ current = OnePixelCurrent
    /\ cmp.impl = "server"
    /\ cmp.mismatchPixelCount = 1
    /\ cmp.totalPixels = 4
    /\ ~cmp.pass

\* Every channel of every pixel of current is within 2 units of baseline.
NoiseOnly ==
    /\ ~SizesDiffer
    /\ \A p \in DOMAIN baseline.data : \A ch \in 1..3 :
          Abs(baseline.data[p][ch] - current.data[p][ch]) <= 2
    /\ \A p \in DOMAIN baseline.data : baseline.data[p][4] = current.data[p][4]

\* C14 as stated: when baseline and current differ by at most 2 units per
\* RGB channel at every pixel, the comparison yields a mismatch count of 0.
C14_NoiseSuppressedEverywhere ==
    (NoiseOnly /\ cmp.impl # "none") => (cmp.outcome = "ok" /\ MismatchCount = 0)

\* C14 amended: for such a pair the pixelmatch-based edge implementations
\* (threshold 0.1) yield a mismatch count of 0, 0 percent and no diff image;
\* the server's byte-exact comparison counts every pixel that differs in any
\* channel and passes only when the two images are identical.
C14_NoiseSuppressed ==
    (NoiseOnly /\ cmp.impl # "none") =>
        /\ cmp.outcome = "ok"
        /\ cmp.impl \in {"edge", "twotone"} =>
              /\ cmp.diffPixels = 0
              /\ cmp.mismatchPercentage = 0
              /\ cmp.diffPngBytes = Null
        /\ cmp.impl = "server" =>
              /\ cmp.mismatchPixelCount = ExactCount
              /\ cmp.pass <=> baseline = current

C14_Witness ==
    /\ NoiseOnly
    /\ \A p \in DOMAIN baseline.data : baseline.data[p] # current.data[p]
    /\ \E p \in DOMAIN baseline.data :
          Abs(baseline.data[p][1] - current.data[p][1]) = 2
    /\ cmp.impl = "edge"
    /\ cmp.diffPixels = 0

-----------------------------------------------------------------------------
(* Relations between comparisons                                           *)

\* What the implementation that produced cmp yields with baseline and
\* current swapped.
Swapped == Compare(cmp.impl, current, baseline)

\* C15: for two images of equal dimensions, the mismatch count of comparing
\* (A,B) equals the mismatch count of comparing (B,A).
C15_CountSymmetric ==
    cmp.outcome = "ok" =>
        /\ Swapped.outcome = "ok"
        /\ CountOf(Swapped) = CountOf(cmp)
        /\ cmp.impl # "server" => Swapped.flagged = cmp.flagged

C15_Witness ==
    /\ cmp.impl = "edge"
    /\ cmp.outcome = "ok"
    /\ TotalPixels(baseline) = 2
    /\ cmp.diffPixels = 1
    /\ \E p \in cmp.flagged : Darker(baseline.data[p], current.data[p])
    /\ CountOf(Swapped) = 1

RenderedGreen(px) == px \in {EdgeGreen, Green}

RenderedRed(px) == px \in {EdgeRed, Red}

\* C16: swapping baseline and current inverts the directional colours: every
\* pixel rendered green in the diff of (A,B) is red in the diff of (B,A), and
\* every pixel rendered red in the diff of (A,B) is green in the diff of (B,A).
C16_ColoursInvert ==
    (cmp.impl \in {"edge", "twotone"} /\ cmp.outcome = "ok" /\ cmp.diffPngBytes # Null) =>
        /\ Swapped.diffPngBytes # Null
        /\ \A p \in DOMAIN cmp.diffPngBytes.data :
              /\ RenderedGreen(cmp.diffPngBytes.data[p]) =>
                    RenderedRed(Swapped.diffPngBytes.data[p])
              /\ RenderedRed(cmp.diffPngBytes.data[p]) =>
                    RenderedGreen(Swapped.diffPngBytes.data[p])

\* C17: every flagged pixel whose distance |dR|+|dG|+|dB| is below 30 is
\* rendered yellow, never green or red; only flagged pixels with a distance
\* of 30 or more receive a directional colour.
C17_NoiseYellow ==
    (cmp.impl \in {"edge", "twotone"} /\ cmp.outcome = "ok" /\ cmp.diffPngBytes # Null) =>
        \A p \in DOMAIN cmp.diffPngBytes.data :
            LET d == Dist(baseline.data[p], current.data[p])
                px == cmp.diffPngBytes.data[p]
            IN /\ (p \in cmp.flagged /\ d < NoiseDistance) => px = Yellow
               /\ (RenderedGreen(px) \/ RenderedRed(px)) =>
                     (p \in cmp.flagged /\ d >= NoiseDistance)

-----------------------------------------------------------------------------
(* Properties of the classifier call made for a run                        *)

\* C18: no failure is retried: for one comparison at most one request is sent
\* to the classifier and at most one result is produced; a request is issued
\* only by a handler that has not called the classifier yet, and once the
\* call has settled or failed neither generateAIInsights nor the handler
\* issues it again.
C18_NoRetry ==
    [][/\ ai'.requests <= 1
       /\ (fetch' = "inflight" /\ fetch # "inflight") =>
             (fetch = "none" /\ pc = "idle" /\ ai = NotCalled)
       /\ fetch = "settled" => fetch' = "settled"
       /\ ai # NotCalled => ai' = ai
       /\ request # NoRequest => request' = request
       /\ pc = "done" => pc' = "done"
       /\ Cardinality(visual_runs') <= 1]_vars

C18_Witness ==
    /\ pc = "done"
    /\ fetch = "settled"
    /\ ai.outcome = "threw"
    /\ ai.requests = 1
    /\ \E row \in visual_runs : row.status = "failed"

\* C19: the insight request carries the baseline image reference followed by
\* the current image reference, and a diff image reference exactly when the
\* comparison produced a diff image (mismatch count above 0); the pixel count
\* in the request is that of the same comparison and the percentage is that
\* comparison's percentage, written with two decimals.
C19_InsightRequest ==
    request # NoRequest =>
        LET diffResult == EdgeComparePngExact(baseline, current) IN
        /\ Len(request.images) \in {2, 3}
        /\ request.images[1] = Path(0, "baseline.png")
        /\ request.images[2] = Path(RunId, "current.png")
        /\ request.images[2] \in storage
        /\ Len(request.images) = 3 <=> diffResult.diffPixels > 0
        /\ Len(request.images) = 3 <=> diffResult.diffPngBytes # Null
        /\ Len(request.images) = 3 <=> request.mentionsDiff
        /\ Len(request.images) = 3 =>
              /\ request.images[3] = Path(RunId, "diff.png")
              /\ request.images[3] \in storage
        /\ request.diffPixels = diffResult.diffPixels
        /\ request.percentText = Fixed2(diffResult.mismatchPercentage)

C19_Witness ==
    /\ request # NoRequest
    /\ Len(request.images) = 3
    /\ request.diffPixels = 1
    /\ request.percentText = 5000
    /\ fetch = "inflight"

-----------------------------------------------------------------------------
(* Properties of concurrent run creation                                   *)

\* What run r produces when it is served alone.
AloneServer(r) == ServerComparePngExact(baseline, runs[r].captured)

AloneEdge(r) == EdgeComparePngExact(baseline, runs[r].captured)

AloneServerResult(r) ==
    IF AloneServer(r).outcome = "ok"
    THEN CompareResult(AloneServer(r), runs[r].runId)
    ELSE ErrorResult("DIMENSION_MISMATCH", Path(runs[r].runId, "current.png"))

\* C20: concurrent run creations share no mutable state: every run has its
\* own id and paths, the file it compares is the screenshot it captured, and
\* its metrics, stored current, diff and result artifacts and its row are
\* exactly those of the same run served alone; the baseline is not modified
\* and every stored object belongs to the one run whose id it carries.
C20_RunsIndependent ==
    /\ disk[baselinePngPath] = baseline
    /\ disk[BucketBaseline] = baseline
    /\ \A r1, r2 \in DOMAIN runs :
          (r1 # r2 /\ runs[r1].runId # 0) => runs[r1].runId # runs[r2].runId
    /\ \A k \in DOMAIN disk :
          k.run # 0 => \E r \in DOMAIN runs :
              /\ runs[r].runId = k.run
              /\ k.store = IF runs[r].pipeline = "express" THEN "fs" ELSE "bucket"
    /\ \A row \in visual_runs : \E r \in DOMAIN runs :
          runs[r].pipeline = "edge" /\ runs[r].runId = row.id
    /\ \A r \in DOMAIN runs :
          /\ (runs[r].pipeline = "express" /\ runs[r].pc \in {"compare", "writeDiff", "save", "done"}) =>
                disk[runCurrentPngPath(runs[r].runId)] = runs[r].captured
          /\ (runs[r].pipeline = "express" /\ runs[r].pc \in {"writeDiff", "save", "done"}) =>
                /\ runs[r].metrics = AloneServer(r)
                /\ runs[r].result = AloneServerResult(r)
          /\ (runs[r].pipeline = "express" /\ runs[r].pc \in {"save", "done"}) =>
                IF AloneServer(r).outcome = "ok"
                THEN disk[runDiffPngPath(runs[r].runId)] = AloneServer(r).diffFile
                ELSE runDiffPngPath(runs[r].runId) \notin DOMAIN disk
          /\ (runs[r].pipeline = "express" /\ runs[r].pc = "done") =>
                disk[runResultJsonPath(runs[r].runId)] = AloneServerResult(r)
          /\ (runs[r].pipeline = "edge" /\ runs[r].pc \notin {"idle", "compare"}) =>
                runs[r].metrics = AloneEdge(r)
          /\ (runs[r].pipeline = "edge" /\ runs[r].pc = "done" /\ AloneEdge(r).outcome # "ok") =>
                /\ runs[r].runId = 0
                /\ runs[r].result = JsonError("Image dimensions mismatch", 500)
          /\ (runs[r].pipeline = "edge" /\ AloneEdge(r).outcome = "ok"
                /\ runs[r].pc \in {"uploadDiff", "uploadResult", "insert", "done"}) =>
                disk[BucketKey(Path(runs[r].runId, "current.png"))] = runs[r].captured
          /\ (runs[r].pipeline = "edge" /\ AloneEdge(r).outcome = "ok"
                /\ runs[r].pc \in {"uploadResult", "insert", "done"}) =>
                LET k == BucketKey(Path(runs[r].runId, "diff.png")) IN
                IF AloneEdge(r).diffPngBytes = Null
                THEN k \notin DOMAIN disk
                ELSE k \in DOMAIN disk /\ disk[k] = AloneEdge(r).diffPngBytes
          /\ (runs[r].pipeline = "edge" /\ AloneEdge(r).outcome = "ok"
                /\ runs[r].pc \in {"insert", "done"}) =>
                disk[BucketKey(Path(runs[r].runId, "result.json"))]
                    = EdgeResultJson(EdgeRunLocals(AloneEdge(r), runs[r].runId))
          /\ (runs[r].pipeline = "edge" /\ AloneEdge(r).outcome = "ok" /\ runs[r].pc = "done") =>
                /\ runs[r].result.diffPixels = AloneEdge(r).diffPixels
                /\ CompletedRow(EdgeRunLocals(AloneEdge(r), runs[r].runId), ValidInsights)
                      \in visual_runs
                /\ Cardinality({row \in visual_runs : row.id = runs[r].runId}) = 1

C20_Witness ==
    /\ \A r \in DOMAIN runs : runs[r].pc = "done"
    /\ runs[1].pipeline = "express"
    /\ runs[2].pipeline = "express"
    /\ runs[1].captured # runs[2].captured
    /\ runs[1].result.runStatus # runs[2].result.runStatus

-----------------------------------------------------------------------------
(* Frame and threshold properties of the comparison                        *)

\* C21: a comparison never modifies the decoded baseline or current pixel
\* buffers: whether comparePngExact returns or throws, both source images
\* keep the pixel values they were decoded with, and every store goes to the
\* diff image or the pixelmatch output buffer.
C21_SourcesUnmodified ==
    [][/\ baseline' = baseline
       /\ current' = current
       /\ \A impl \in {"server", "edge", "twotone"} :
             \A st \in Stores(impl, baseline, current) : st.buffer \in {"diff", "mask"}]_vars

C21_Witness ==
    /\ cmp.impl = "twotone"
    /\ cmp.outcome = "ok"
    /\ cmp.diffPixels > 0
    /\ \E st \in Stores("twotone", baseline, current) : st.buffer = "diff" /\ st.value = Green
    /\ baseline # current

\* The threshold option of the pixelmatch call, in hundredths: exact, the
\* value both implementations pass, and more tolerant ones up to 1.
Thresholds == {0, Threshold100, 30, 100}

\* mismatchPixels of the pixelmatch call for a given threshold option; the
\* comparison throws before the call when the dimensions differ.
MismatchPixelsAt(b, c, t100) ==
    IF ~DimensionsMatch(b, c) THEN [outcome |-> "Error", mismatchPixels |-> Null]
    ELSE [outcome |-> "ok",
          mismatchPixels |->
              pixelmatch(b.data, c.data, b.width, b.height, t100, <<255, 0, 0>>).count]

\* The current image has the baseline's size or is a single pixel.
InitThreshold ==
    /\ baseline \in SmallImages
    /\ current \in {c \in SmallImages : DimensionsMatch(baseline, c) \/ TotalPixels(c) = 1}
    /\ cmp = NotCompared
    /\ aiEnv = NoAiEnv
    /\ ai = NotCalled
    /\ EdgeIdle
    /\ ServerIdle
    /\ ConcIdle
    /\ LibIdle

PixelmatchAt(t100) ==
    /\ sweep' = (t100 :> MismatchPixelsAt(baseline, current, t100)) @@ sweep
    /\ UNCHANGED <<compareVars, insightVars, edgeVars, serverVars, concVars, urlCheck, rateVars, indexVars,
                   admission>>

NextThreshold == \E t100 \in Thresholds : PixelmatchAt(t100)

SpecThreshold == InitThreshold /\ [][NextThreshold]_vars

-----------------------------------------------------------------------------
(* _lib/ssrfGuard.ts                                                       *)
(* Strings are sequences of one-character strings, so that ===,            *)
(* startsWith, includes and the IPv4 regular expression are computed on    *)
(* the text.  new URL(urlString) is the platform's WHATWG parser: a parsed *)
(* URL has a protocol and a host that is a domain, an IPv4 address or an   *)
(* IPv6 address, and url.hostname is the serialised host: dotted decimal   *)
(* for IPv4 and the compressed lower-case text in square brackets for      *)
(* IPv6.                                                                    *)

DigitChar == <<"0", "1", "2", "3", "4", "5", "6", "7", "8", "9">>

IsDigit(ch) == \E d \in 1..10 : DigitChar[d] = ch

DigitVal(ch) == (CHOOSE d \in 1..10 : DigitChar[d] = ch) - 1

\* decimal text of an octet
Dec(n) ==
    IF n < 10 THEN <<DigitChar[n + 1]>>
    ELSE IF n < 100 THEN <<DigitChar[(n \div 10) + 1], DigitChar[(n % 10) + 1]>>
    ELSE <<DigitChar[(n \div 100) + 1], DigitChar[((n \div 10) % 10) + 1],
           DigitChar[(n % 10) + 1]>>

\* Number() of a string of one to three digits
NumberOf(s) ==
    IF Len(s) = 1 THEN DigitVal(s[1])
    ELSE IF Len(s) = 2 THEN 10 * DigitVal(s[1]) + DigitVal(s[2])
    ELSE 100 * DigitVal(s[1]) + 10 * DigitVal(s[2]) + DigitVal(s[3])

StartsWith(s, prefix) ==
    Len(s) >= Len(prefix) /\ SubSeq(s, 1, Len(prefix)) = prefix

Includes(s, ch) == \E i \in 1..Len(s) : s[i] = ch

UpperChar == <<"E", "X">>
LowerChar == <<"e", "x">>

\* String.prototype.toLowerCase on the characters the inputs use
ToLowerCase(s) ==
    [i \in 1..Len(s) |->
        IF \E k \in 1..Len(UpperChar) : UpperChar[k] = s[i]
        THEN LowerChar[CHOOSE k \in 1..Len(UpperChar) : UpperChar[k] = s[i]]
        ELSE s[i]]

\* String.prototype.trim
Trim(s) ==
    LET keep == {i \in 1..Len(s) : s[i] # " "}
    IN IF keep = {} THEN <<>>
       ELSE SubSeq(s, CHOOSE i \in keep : \A j \in keep : i <= j,
                      CHOOSE i \in keep : \A j \in keep : i >= j)

\* hosts of parsed URLs
Domain(text) == [kind |-> "domain", text |-> text]
IPv4(a, b, c, d) == [kind |-> "ipv4", octets |-> <<a, b, c, d>>]
IPv6(groups) == [kind |-> "ipv6", groups |-> groups]

HexChar == <<"0", "1", "2", "3", "4", "5", "6", "7", "8", "9", "a", "b", "c", "d", "e", "f">>

RECURSIVE Hex(_)
Hex(n) ==
    IF n < 16 THEN <<HexChar[n + 1]>>
    ELSE Hex(n \div 16) \o <<HexChar[(n % 16) + 1]>>

RECURSIVE JoinHex(_)
JoinHex(groups) ==
    IF groups = <<>> THEN <<>>
    ELSE IF Len(groups) = 1 THEN Hex(groups[1])
    ELSE Hex(groups[1]) \o <<":">> \o JoinHex(Tail(groups))

\* The IPv6 serialiser: lower-case hexadecimal groups without leading zeros,
\* the first longest run of two or more zero groups compressed to "::".
SerializeIPv6(groups) ==
    LET ZeroRun(i, l) == i + l - 1 <= 8 /\ \A k \in i..(i + l - 1) : groups[k] = 0
        zeroRuns == {r \in (1..8) \X (2..8) : ZeroRun(r[1], r[2])}
    IN IF zeroRuns = {} THEN JoinHex(groups)
       ELSE LET longest == CHOOSE r \in zeroRuns :
                              \A q \in zeroRuns : q[2] < r[2] \/ (q[2] = r[2] /\ r[1] <= q[1])
            IN JoinHex(SubSeq(groups, 1, longest[1] - 1)) \o <<":", ":">>
                 \o JoinHex(SubSeq(groups, longest[1] + longest[2], 8))

\* the host serialiser behind url.hostname
Hostname(host) ==
    CASE host.kind = "domain" -> host.text
      [] host.kind = "ipv4" ->
            Dec(host.octets[1]) \o <<".">> \o Dec(host.octets[2]) \o <<".">>
              \o Dec(host.octets[3]) \o <<".">> \o Dec(host.octets[4])
      [] host.kind = "ipv6" -> <<"[">> \o SerializeIPv6(host.groups) \o <<"]">>

\* hostname.match(/^(\d{1,3})\.(\d{1,3})\.(\d{1,3})\.(\d{1,3})$/): the four
\* numbers, or Null when the text does not match
MatchIPv4(hostname) ==
    LET dots == {i \in 1..Len(hostname) : hostname[i] = "."}
        Nth(k) == CHOOSE i \in dots : Cardinality({j \in dots : j < i}) = k - 1
        part(k) == SubSeq(hostname,
                          IF k = 1 THEN 1 ELSE Nth(k - 1) + 1,
                          IF k = 4 THEN Len(hostname) ELSE Nth(k) - 1)
    IN IF /\ Cardinality(dots) = 3
          /\ \A i \in 1..Len(hostname) : i \in dots \/ IsDigit(hostname[i])
          /\ \A k \in 1..4 : Len(part(k)) \in 1..3
       THEN [k \in 1..4 |-> NumberOf(part(k))]
       ELSE Null

isPrivateIP(hostname) ==
    LET match == MatchIPv4(hostname)
    IN \/ /\ match # Null
          /\ \/ match[1] = 10
             \/ match[1] = 172 /\ match[2] >= 16 /\ match[2] <= 31
             \/ match[1] = 192 /\ match[2] = 168
             \/ match[1] = 127
             \/ match[1] = 0
       \/ /\ Includes(hostname, ":")
          /\ \/ hostname = <<":", ":", "1">>
             \/ hostname = <<"0", ":", "0", ":", "0", ":", "0", ":", "0", ":", "0", ":",
                             "0", ":", "1">>
             \/ StartsWith(hostname, <<"f", "c">>)
             \/ StartsWith(hostname, <<"f", "d">>)

InvalidUrl == [kind |-> "invalid"]

ParsedUrl(protocol, host) == [kind |-> "url", protocol |-> protocol, host |-> host]

Safe == [safe |-> TRUE, error |-> Undefined]

Unsafe(error) == [safe |-> FALSE, error |-> error]

\* url: what new URL(urlString) gives (InvalidUrl when it throws);
\* allowedHosts: the entries of Deno.env.get('ALLOWED_HOSTS').split(','), or
\* Undefined when the variable is unset or empty
isUrlSafe(url, allowedHosts) ==
    IF url.kind = "invalid" THEN Unsafe("Invalid URL format")
    ELSE IF url.protocol \notin {"http:", "https:"}
    THEN Unsafe("Only HTTP/HTTPS protocols allowed")
    ELSE LET hostname == ToLowerCase(Hostname(url.host))
         IN IF \/ hostname = <<"l", "o", "c", "a", "l", "h", "o", "s", "t">>
               \/ hostname = <<"1", "2", "7", ".", "0", ".", "0", ".", "1">>
            THEN Unsafe("Localhost URLs are not allowed")
            ELSE IF isPrivateIP(hostname)
            THEN Unsafe("Private IP addresses are not allowed")
            ELSE IF \/ StartsWith(hostname, <<"1", "6", "9", ".", "2", "5", "4", ".">>)
                    \/ StartsWith(hostname, <<"f", "e", "8", "0", ":">>)
            THEN Unsafe("Link-local addresses are not allowed")
            ELSE IF /\ allowedHosts # Undefined
                    /\ ~\E k \in 1..Len(allowedHosts) :
                           ToLowerCase(Trim(allowedHosts[k])) = hostname
            THEN Unsafe("Host is not in allowlist")
            ELSE Safe

\* Inputs: URLs as the parser reads them and ALLOWED_HOSTS settings.
Protocols == {"http:", "https:", "ftp:", "file:"}

ExampleCom == <<"e", "x", "a", "m", "p", "l", "e", ".", "c", "o", "m">>

Domains ==
    {Domain(<<"l", "o", "c", "a", "l", "h", "o", "s", "t">>),
     Domain(ExampleCom),
     Domain(<<"f", "c", ".", "e", "x", "a", "m", "p", "l", "e">>)}

IPv4Hosts ==
    {IPv4(127, 0, 0, 1), IPv4(127, 0, 0, 2), IPv4(10, 1, 2, 3), IPv4(172, 16, 0, 1),
     IPv4(172, 31, 255, 254), IPv4(172, 32, 0, 1), IPv4(192, 168, 1, 1),
     IPv4(192, 169, 1, 1), IPv4(169, 254, 169, 254), IPv4(8, 8, 8, 8),
     IPv4(93, 184, 216, 34), IPv4(0, 0, 0, 0)}

IPv6Hosts ==
    {IPv6(<<0, 0, 0, 0, 0, 0, 0, 1>>),          \* ::1
     IPv6(<<65152, 0, 0, 0, 0, 0, 0, 1>>),      \* fe80::1
     IPv6(<<64768, 0, 0, 0, 0, 0, 0, 1>>),      \* fd00::1
     IPv6(<<64512, 0, 0, 0, 0, 0, 0, 1>>),      \* fc00::1
     IPv6(<<8193, 3512, 0, 0, 0, 0, 0, 1>>)}    \* 2001:db8::1

Hosts == Domains \cup IPv4Hosts \cup IPv6Hosts

Urls == {InvalidUrl} \cup {ParsedUrl(p, h) : p \in Protocols, h \in Hosts}

AllowLists ==
    {Undefined,
     <<ExampleCom>>,
     << <<"E", "x", "a", "m", "p", "l", "e", ".", "c", "o", "m">>,
        <<" ", "8", ".", "8", ".", "8", ".", "8">> >>}

NotChecked == [safe |-> Null, error |-> Null]

InitUrl ==
    /\ baseline \in {MkImage(1, 1, [p \in {1} |-> Black])}
    /\ current = baseline
    /\ cmp = NotCompared
    /\ aiEnv = NoAiEnv
    /\ ai = NotCalled
    /\ EdgeIdle
    /\ ServerIdle
    /\ ConcIdle
    /\ sweep = <<>>
    /\ RateIdle
    /\ IndexIdle
    /\ admission = Null
    /\ \E u \in Urls : \E a \in AllowLists :
          urlCheck = [url |-> u, allowedHosts |-> a, called |-> FALSE, result |-> NotChecked]

CallIsUrlSafe ==
    /\ urlCheck' = [urlCheck EXCEPT !.called = TRUE,
                                    !.result = isUrlSafe(urlCheck.url, urlCheck.allowedHosts)]
    /\ UNCHANGED <<compareVars, insightVars, edgeVars, serverVars, concVars, sweep, rateVars, indexVars,
                   admission>>

NextUrl == CallIsUrlSafe

SpecUrl == InitUrl /\ [][NextUrl]_vars

\* The host classes the guard is to refuse, read off the parsed host.
IsLocalhost(host) ==
    host.kind = "domain" /\ host.text = <<"l", "o", "c", "a", "l", "h", "o", "s", "t">>

IsLoopback(host) ==
    \/ host.kind = "ipv4" /\ host.octets[1] = 127
    \/ host.kind = "ipv6" /\ host.groups = <<0, 0, 0, 0, 0, 0, 0, 1>>

IsPrivateNetwork(host) ==
    \/ /\ host.kind = "ipv4"
       /\ \/ host.octets[1] = 10
          \/ host.octets[1] = 172 /\ host.octets[2] \in 16..31
          \/ host.octets[1] = 192 /\ host.octets[2] = 168
    \/ host.kind = "ipv6" /\ host.groups[1] \in 64512..65023      \* fc00::/7

IsLinkLocal(host) ==
    \/ host.kind = "ipv4" /\ host.octets[1] = 169 /\ host.octets[2] = 254
    \/ host.kind = "ipv6" /\ host.groups[1] \in 65152..65215      \* fe80::/10

InternalHost(host) ==
    IsLocalhost(host) \/ IsLoopback(host) \/ IsPrivateNetwork(host) \/ IsLinkLocal(host)

InAllowList(host, allowedHosts) ==
    \/ allowedHosts = Undefined
    \/ \E k \in 1..Len(allowedHosts) :
          ToLowerCase(Trim(allowedHosts[k])) = Hostname(host)

\* C23: isUrlSafe reports unsafe for every URL whose scheme is not http or
\* https and for every URL whose host is localhost, loopback, private or
\* link-local, in IPv4 or IPv6 form; it reports safe only for http(s) URLs
\* with none of these hosts that the configured allowlist admits.
C23_GuardRefusesInternal ==
    urlCheck.called =>
        LET u == urlCheck.url
            parsed == u.kind = "url"
            badScheme == ~parsed \/ u.protocol \notin {"http:", "https:"}
        IN /\ (badScheme \/ InternalHost(u.host)) => ~urlCheck.result.safe
           /\ urlCheck.result.safe =>
                 /\ ~badScheme
                 /\ ~InternalHost(u.host)
                 /\ InAllowList(u.host, urlCheck.allowedHosts)

\* the IPv4 side alone: every internal IPv4 host and localhost is refused
InternalIPv4Refused ==
    (/\ urlCheck.called
     /\ urlCheck.url.kind = "url"
     /\ urlCheck.url.host.kind # "ipv6"
     /\ InternalHost(urlCheck.url.host)) => ~urlCheck.result.safe

\* an IPv6 loopback, private or link-local host reported safe
InternalIPv6Accepted ==
    /\ urlCheck.called
    /\ urlCheck.url.kind = "url"
    /\ urlCheck.url.host.kind = "ipv6"
    /\ InternalHost(urlCheck.url.host)
    /\ urlCheck.result.safe

-----------------------------------------------------------------------------
(* _lib/rateLimit.ts                                                       *)

RATE_LIMIT_WINDOW_MS == 60000

DEFAULT_MAX_REQUESTS == 30

\* the size above which a call first removes the expired entries
CleanupSize == 1000

\* parseInt(Deno.env.get('RATE_LIMIT_PER_MINUTE') || String(DEFAULT_MAX_REQUESTS))
MaxRequests(env) == IF env = Undefined THEN DEFAULT_MAX_REQUESTS ELSE NumberOf(env)

WindowNeverExpires(entry, now) == FALSE

\* entry.resetAt < now
WindowExpired(entry, now) == entry.resetAt < now

OverLimitByTwo(count, maxRequests) == count > maxRequests + 1

\* entry.count > maxRequests
OverLimit(count, maxRequests) == count > maxRequests

\* The store after the call and the value returned.
checkRateLimit(store, ip, now, env) ==
    LET maxRequests == MaxRequests(env)
        live == {k \in DOMAIN store : ~WindowExpired(store[k], now)}
        cleaned == IF Cardinality(DOMAIN store) > CleanupSize
                   THEN [k \in live |-> store[k]]
                   ELSE store
    IN IF ip \notin DOMAIN cleaned \/ WindowExpired(cleaned[ip], now)
       THEN [store |-> [k \in DOMAIN cleaned \cup {ip} |->
                           IF k = ip
                           THEN [count |-> 1, resetAt |-> now + RATE_LIMIT_WINDOW_MS]
                           ELSE cleaned[k]],
             result |-> [allowed |-> TRUE, remaining |-> maxRequests - 1]]
       ELSE LET count == cleaned[ip].count + 1
                bumped == [cleaned EXCEPT ![ip].count = count]
            IN IF OverLimit(count, maxRequests)
               THEN [store |-> bumped, result |-> [allowed |-> FALSE, remaining |-> 0]]
               ELSE [store |-> bumped,
                     result |-> [allowed |-> TRUE, remaining |-> maxRequests - count]]

\* Bounds of the exploration: the number of calls, and the clock, which
\* advances in steps of a third of the window.
MaxCalls == 5

MaxTicks == 7

TickMs == RATE_LIMIT_WINDOW_MS \div 3

ClientIps == {"203.0.113.7", "198.51.100.9"}

LimitEnvs == {Undefined, <<"1">>, <<"2">>}

InitRate ==
    /\ baseline \in {MkImage(1, 1, [p \in {1} |-> Black])}
    /\ current = baseline
    /\ cmp = NotCompared
    /\ aiEnv = NoAiEnv
    /\ ai = NotCalled
    /\ EdgeIdle
    /\ ServerIdle
    /\ ConcIdle
    /\ sweep = <<>>
    /\ urlCheck = Null
    /\ clock = 0
    /\ limitEnv \in LimitEnvs
    /\ rateLimitStore = <<>>
    /\ calls = <<>>
    /\ IndexIdle
    /\ admission = Null

RateUnchanged ==
    UNCHANGED <<compareVars, insightVars, edgeVars, serverVars, concVars, sweep, urlCheck,
                limitEnv, indexVars, admission>>

\* one call; the entry it leaves is logged with the result
CallCheckRateLimit(ip) ==
    /\ Len(calls) < MaxCalls
    /\ LET r == checkRateLimit(rateLimitStore, ip, clock, limitEnv)
       IN /\ rateLimitStore' = r.store
          /\ calls' = Append(calls, [ip |-> ip, at |-> clock,
                                     allowed |-> r.result.allowed,
                                     remaining |-> r.result.remaining,
                                     resetAt |-> r.store[ip].resetAt])
    /\ UNCHANGED clock
    /\ RateUnchanged

Tick ==
    /\ clock < MaxTicks * TickMs
    /\ clock' = clock + TickMs
    /\ UNCHANGED <<rateLimitStore, calls>>
    /\ RateUnchanged

NextRate == Tick \/ \E ip \in ClientIps : CallCheckRateLimit(ip)

SpecRate == InitRate /\ [][NextRate]_vars

\* the allowed calls for the ip of call i within the window of length ms
\* that starts at call i
AllowedFrom(i, ms) ==
    {j \in 1..Len(calls) :
        /\ calls[j].ip = calls[i].ip
        /\ calls[j].allowed
        /\ j >= i
        /\ calls[j].at < calls[i].at + ms}

\* the allowed calls of the fixed window that call i belongs to
AllowedInWindow(i) ==
    {j \in 1..Len(calls) :
        /\ calls[j].ip = calls[i].ip
        /\ calls[j].resetAt = calls[i].resetAt
        /\ calls[j].allowed}

\* C24 as stated: per client IP, within any 60-second period at most
\* RATE_LIMIT_PER_MINUTE calls return allowed = true.
C24_AnySixtySeconds ==
    \A i \in 1..Len(calls) :
        Cardinality(AllowedFrom(i, RATE_LIMIT_WINDOW_MS)) <= MaxRequests(limitEnv)

\* C24 amended: the limit holds per fixed window.  A window starts with the
\* first call of an IP, or its first call after the previous window's
\* resetAt, and lasts until resetAt = start + 60000 inclusive; within one
\* window at most RATE_LIMIT_PER_MINUTE calls return allowed = true, every
\* further call of the window is denied, and so any 60-second period sees
\* at most twice the limit.
C24_PerWindow ==
    \A i \in 1..Len(calls) :
        /\ Cardinality(AllowedInWindow(i)) <= MaxRequests(limitEnv)
        /\ calls[i].at <= calls[i].resetAt
        /\ calls[i].at >= calls[i].resetAt - RATE_LIMIT_WINDOW_MS
        /\ ~calls[i].allowed => Cardinality(AllowedInWindow(i)) = MaxRequests(limitEnv)
        /\ Cardinality(AllowedFrom(i, RATE_LIMIT_WINDOW_MS)) <= 2 * MaxRequests(limitEnv)

\* a denied call, and a 60-second period holding more allowed calls than
\* the limit
C24_Witness ==
    /\ \E i \in 1..Len(calls) : ~calls[i].allowed
    /\ \E i \in 1..Len(calls) :
          Cardinality(AllowedFrom(i, RATE_LIMIT_WINDOW_MS)) > MaxRequests(limitEnv)

\* A call made after the resetAt of the window in which the client was denied,
\* the first such call of that client, is allowed and opens a new window.
DenialEnds ==
    \A i \in 1..Len(calls) : \A j \in 1..Len(calls) :
        (/\ i < j
         /\ calls[i].ip = calls[j].ip
         /\ ~calls[i].allowed
         /\ calls[j].at > calls[i].resetAt
         /\ \A k \in (i + 1)..(j - 1) :
               calls[k].ip = calls[i].ip => calls[k].at <= calls[i].resetAt)
            => /\ calls[j].allowed
               /\ calls[j].remaining = MaxRequests(limitEnv) - 1
               /\ calls[j].resetAt = calls[j].at + RATE_LIMIT_WINDOW_MS

\* A call for another IP leaves what a call for ip returns, now or at any
\* later time, as it was.
OtherClientsUntouched ==
    \A ip \in ClientIps :
        (Len(calls') = Len(calls) + 1 /\ calls'[Len(calls')].ip # ip)
            => \A ticks \in 0..MaxTicks :
                  checkRateLimit(rateLimitStore', ip, clock + ticks * TickMs, limitEnv).result
                    = checkRateLimit(rateLimitStore, ip, clock + ticks * TickMs, limitEnv).result

\* C30: denial by checkRateLimit is never permanent and never crosses
\* clients.  The first call a denied client makes more than 60 seconds after
\* its window started is allowed, however many denied calls came in between,
\* and a call for one IP never changes the allowed/remaining result of a
\* call for a different IP.
C30_DenialTemporary == []DenialEnds /\ [][OtherClientsUntouched]_vars

\* a client denied twice in one window and allowed by its next call, made
\* after the window, while the other client was calling too
C30_Witness ==
    \E i \in 1..Len(calls) : \E j \in 1..Len(calls) :
        /\ i + 1 < j
        /\ calls[i].ip = calls[j].ip
        /\ ~calls[i].allowed
        /\ \E k \in (i + 1)..(j - 1) :
              /\ calls[k].ip = calls[i].ip
              /\ ~calls[k].allowed
              /\ calls[k].resetAt = calls[i].resetAt
        /\ calls[j].at > calls[i].resetAt
        /\ calls[j].allowed
        /\ \E k \in 1..Len(calls) : calls[k].ip # calls[i].ip

-----------------------------------------------------------------------------
(* Run records and the artifacts they reference                            *)

\* every artifact an edge row references is in the bucket
RowArtifactsStored(row) ==
    /\ row.current_path \in storage
    /\ row.diff_path # NoPath => row.diff_path \in storage
    /\ row.result_path \in storage

\* every artifact a saved Express result references is on disk; current is
\* '' when capture left no file
ResultArtifactsStored ==
    serverResponse.saved =>
        /\ serverResponse.current # NoPath => serverResponse.current \in serverFiles
        /\ serverResponse.diff # NoPath => serverResponse.diff \in serverFiles
        /\ Path(RunId, "result.json") \in serverFiles

CompletedRowsStored ==
    \A row \in visual_runs : row.status = "completed" => RowArtifactsStored(row)

\* C25: every persisted run record references only artifacts that were
\* stored: whenever a run row or a run result exists, the objects at its
\* current path, at its diff path when non-null and at its result path have
\* been written, whichever step of run creation failed.
C25_RecordsReferenceStoredArtifacts ==
    /\ \A row \in visual_runs : RowArtifactsStored(row)
    /\ ResultArtifactsStored

-----------------------------------------------------------------------------
(* server/visual/services/storage.ts: the baseline index                   *)
(* saveBaselineMeta is an async function; every await (ensureDir, readFile, *)
(* writeFile) is a point where another request's call can run.  Each JSON  *)
(* file is read whole and written whole.                                    *)

MaxSaves == 2

SaveIds == 1..MaxSaves

ProjectIds == {"p1", "p2"}

IdleSave == [pc |-> "idle", baseline |-> Null, baselineIndex |-> {}, projectBaselines |-> <<>>]

\* readJsonFile(BASELINE_INDEX_PATH, {}): the fallback when the file is missing
ReadIndex == IF indexFile.exists THEN indexFile.entries ELSE {}

\* readJsonFile(projectIndexPath, [])
ReadProject(projectId) ==
    IF projectId \in DOMAIN projectFiles THEN projectFiles[projectId] ELSE <<>>

\* projectBaselines.filter((b) => b.baselineId !== baseline.baselineId)
RECURSIVE Without(_, _)
Without(list, baselineId) ==
    IF list = <<>> THEN <<>>
    ELSE IF Head(list).baselineId = baselineId THEN Without(Tail(list), baselineId)
    ELSE <<Head(list)>> \o Without(Tail(list), baselineId)

getBaselineById(baselineId) ==
    IF \E b \in ReadIndex : b.baselineId = baselineId
    THEN CHOOSE b \in ReadIndex : b.baselineId = baselineId
    ELSE Null

listBaselines(projectId) == ReadProject(projectId)

IndexUnchanged ==
    UNCHANGED <<compareVars, insightVars, edgeVars, serverVars, concVars, sweep, urlCheck,
                rateVars, admission>>

\* The call starts: initVisualStorage looks whether the index file exists.
SaveStart(s, projectId) ==
    /\ saves[s].pc = "idle"
    /\ saves' = [saves EXCEPT ![s] =
                    [IdleSave EXCEPT !.pc = IF indexFile.exists THEN "write_meta"
                                            ELSE "init_write",
                                     !.baseline = [baselineId |-> s, projectId |-> projectId]]]
    /\ UNCHANGED <<indexFile, projectFiles, metaFiles>>
    /\ IndexUnchanged

\* initVisualStorage found no index file: writeJsonFile(BASELINE_INDEX_PATH, {})
SaveInitWrite(s) ==
    /\ saves[s].pc = "init_write"
    /\ indexFile' = [exists |-> TRUE, entries |-> {}]
    /\ saves' = [saves EXCEPT ![s].pc = "write_meta"]
    /\ UNCHANGED <<projectFiles, metaFiles>>
    /\ IndexUnchanged

SaveWriteMeta(s) ==
    /\ saves[s].pc = "write_meta"
    /\ metaFiles' = metaFiles \cup {saves[s].baseline}
    /\ saves' = [saves EXCEPT ![s].pc = "read_index"]
    /\ UNCHANGED <<indexFile, projectFiles>>
    /\ IndexUnchanged

SaveReadIndex(s) ==
    /\ saves[s].pc = "read_index"
    /\ saves' = [saves EXCEPT ![s].pc = "write_index", ![s].baselineIndex = ReadIndex]
    /\ UNCHANGED <<indexFile, projectFiles, metaFiles>>
    /\ IndexUnchanged

\* baselineIndex[baseline.baselineId] = baseline; writeJsonFile(index)
SaveWriteIndex(s) ==
    /\ saves[s].pc = "write_index"
    /\ indexFile' =
          [exists |-> TRUE,
           entries |-> {b \in saves[s].baselineIndex : b.baselineId # s}
                          \cup {saves[s].baseline}]
    /\ saves' = [saves EXCEPT ![s].pc = "read_project"]
    /\ UNCHANGED <<projectFiles, metaFiles>>
    /\ IndexUnchanged

SaveReadProject(s) ==
    /\ saves[s].pc = "read_project"
    /\ saves' = [saves EXCEPT ![s].pc = "write_project",
                              ![s].projectBaselines = ReadProject(saves[s].baseline.projectId)]
    /\ UNCHANGED <<indexFile, projectFiles, metaFiles>>
    /\ IndexUnchanged

\* without.unshift(baseline); writeJsonFile(projectIndexPath, without)
SaveWriteProject(s) ==
    /\ saves[s].pc = "write_project"
    /\ LET projectId == saves[s].baseline.projectId
           without == Without(saves[s].projectBaselines, s)
       IN projectFiles' =
             [k \in DOMAIN projectFiles \cup {projectId} |->
                 IF k = projectId THEN <<saves[s].baseline>> \o without
                 ELSE projectFiles[k]]
    /\ saves' = [saves EXCEPT ![s].pc = "done"]
    /\ UNCHANGED <<indexFile, metaFiles>>
    /\ IndexUnchanged

InitIndex ==
    /\ baseline \in {MkImage(1, 1, [p \in {1} |-> Black])}
    /\ current = baseline
    /\ cmp = NotCompared
    /\ aiEnv = NoAiEnv
    /\ ai = NotCalled
    /\ EdgeIdle
    /\ ServerIdle
    /\ ConcIdle
    /\ sweep = <<>>
    /\ urlCheck = Null
    /\ RateIdle
    /\ indexFile \in {[exists |-> FALSE, entries |-> {}], [exists |-> TRUE, entries |-> {}]}
    /\ projectFiles = <<>>
    /\ metaFiles = {}
    /\ saves = [s \in SaveIds |-> IdleSave]
    /\ admission = Null

NextIndex ==
    \E s \in SaveIds :
        \/ \E projectId \in ProjectIds : SaveStart(s, projectId)
        \/ SaveInitWrite(s)
        \/ SaveWriteMeta(s)
        \/ SaveReadIndex(s)
        \/ SaveWriteIndex(s)
        \/ SaveReadProject(s)
        \/ SaveWriteProject(s)

SpecIndex == InitIndex /\ [][NextIndex]_vars

\* no saveBaselineMeta call is in progress
NoSaveInProgress == \A s \in SaveIds : saves[s].pc \in {"idle", "done"}

Occurrences(list, baselineId) ==
    Cardinality({i \in 1..Len(list) : list[i].baselineId = baselineId})

SaveKept(s) ==
    /\ getBaselineById(s) = saves[s].baseline
    /\ Occurrences(listBaselines(saves[s].baseline.projectId), s) = 1

\* C26: after any set of saveBaselineMeta calls has completed, concurrent
\* calls for different baselines included, every saved baseline is returned
\* by getBaselineById and appears exactly once in listBaselines of its
\* project.
C26_NoSaveLost ==
    NoSaveInProgress => \A s \in SaveIds : saves[s].pc = "done" => SaveKept(s)

\* no baseline is ever listed twice
NeverListedTwice ==
    \A projectId \in DOMAIN projectFiles : \A s \in SaveIds :
        Occurrences(projectFiles[projectId], s) <= 1

\* both calls completed and one baseline is missing from the global index
LostFromIndex ==
    /\ \A s \in SaveIds : saves[s].pc = "done"
    /\ \E s \in SaveIds : getBaselineById(s) = Null

-----------------------------------------------------------------------------
(* The URL guard in the creation handlers                                  *)
(* Each action is one handler for one request.  A request carries the url  *)
(* field of its body; run creation also reads the url stored with the      *)
(* baseline.  The action records which URLs were handed to isUrlSafe,      *)
(* which URL captureScreenshot was started for, and whether anything was   *)
(* uploaded or written to the database or the index.                       *)

NoUrl == [kind |-> "absent"]

\* a string of spaces: truthy, but empty after trim() and not a URL
BlankUrl == [kind |-> "blank"]

PublicUrl == ParsedUrl("https:", Domain(ExampleCom))

LoopbackUrl == ParsedUrl("http:", IPv4(127, 0, 0, 1))

MetadataUrl == ParsedUrl("http:", IPv4(169, 254, 169, 254))

FileUrl == ParsedUrl("file:", Domain(ExampleCom))

BodyUrls == {NoUrl, BlankUrl, InvalidUrl, PublicUrl, LoopbackUrl, MetadataUrl, FileUrl}

BaselineUrls == {NoUrl, PublicUrl, LoopbackUrl}

\* new URL(text) for the texts above
NewURL(text) == IF text.kind = "url" THEN text ELSE InvalidUrl

\* isUrlSafe(text).safe with ALLOWED_HOSTS unset
ReportedSafe(text) == isUrlSafe(NewURL(text), Undefined).safe

\* z.string().url()
IsUrlString(text) == text.kind = "url"

Handlers ==
    {"edge_baseline", "edge_run", "express_baseline", "express_run",
     "plugin_baseline", "plugin_run"}

\* where a handler that got past the guard can still fail
AdmissionFailures == {"none", "capture", "upload", "insert"}

Admitted(a, status, checked, captured, uploaded, written) ==
    [a EXCEPT !.handled = TRUE, !.status = status, !.checked = checked,
              !.captured = captured, !.uploaded = uploaded, !.written = written]

Rejected(a, status, checked) == Admitted(a, status, checked, {}, FALSE, FALSE)

AdmissionUnchanged ==
    UNCHANGED <<compareVars, insightVars, edgeVars, serverVars, concVars, sweep, urlCheck,
                rateVars, indexVars>>

\* the steps after the guard: capture, upload, insert, 201
EdgeContinue(a, url, checked, fail) ==
    IF fail = "capture" THEN Admitted(a, 500, checked, {url}, FALSE, FALSE)
    ELSE IF fail = "upload" THEN Admitted(a, 500, checked, {url}, FALSE, FALSE)
    ELSE IF fail = "insert" THEN Admitted(a, 500, checked, {url}, TRUE, FALSE)
    ELSE Admitted(a, 201, checked, {url}, TRUE, TRUE)

\* edge handleCreateBaseline
EdgeCreateBaseline(fail) ==
    /\ admission.handler = "edge_baseline"
    /\ ~admission.handled
    /\ LET url == admission.bodyUrl
           checked == {[url |-> url, safe |-> ReportedSafe(url)]}
       IN admission' =
             IF url.kind = "absent" THEN Rejected(admission, 400, {})
             ELSE IF ~ReportedSafe(url) THEN Rejected(admission, 400, checked)
             ELSE EdgeContinue(admission, url, checked, fail)
    /\ AdmissionUnchanged

\* edge handleCreateRun, for an existing baseline
EdgeCreateRun(fail) ==
    /\ admission.handler = "edge_run"
    /\ ~admission.handled
    /\ LET runUrl == IF admission.bodyUrl.kind \in {"absent", "blank"}
                     THEN NoUrl ELSE admission.bodyUrl
           captureUrl == IF runUrl # NoUrl THEN runUrl ELSE admission.baselineUrl
           checked == {[url |-> captureUrl, safe |-> ReportedSafe(captureUrl)]}
       IN admission' =
             IF captureUrl = NoUrl THEN Rejected(admission, 400, {})
             ELSE IF ~ReportedSafe(captureUrl) THEN Rejected(admission, 400, checked)
             ELSE EdgeContinue(admission, captureUrl, checked, fail)
    /\ AdmissionUnchanged

\* Express POST /baselines: the schema wants a URL string (no Figma source
\* in these requests); captureScreenshot, then saveBaselineMeta
ExpressCreateBaseline(fail) ==
    /\ admission.handler = "express_baseline"
    /\ ~admission.handled
    /\ LET url == admission.bodyUrl
       IN admission' =
             IF ~IsUrlString(url) THEN Rejected(admission, 400, {})
             ELSE IF fail = "capture" THEN Admitted(admission, 500, {}, {url}, FALSE, FALSE)
             ELSE IF fail \in {"upload", "insert"}
             THEN Admitted(admission, 500, {}, {url}, TRUE, FALSE)
             ELSE Admitted(admission, 201, {}, {url}, TRUE, TRUE)
    /\ AdmissionUnchanged

\* Express POST /baselines/:baselineId/runs, for an existing baseline: a
\* failed capture is answered 201 with a saved ERROR result
ExpressCreateRun(fail) ==
    /\ admission.handler = "express_run"
    /\ ~admission.handled
    /\ LET body == admission.bodyUrl
           url == IF body.kind = "absent" THEN admission.baselineUrl ELSE body
       IN admission' =
             IF body.kind # "absent" /\ ~IsUrlString(body) THEN Rejected(admission, 400, {})
             ELSE IF fail = "capture" THEN Admitted(admission, 201, {}, {url}, FALSE, TRUE)
             ELSE Admitted(admission, 201, {}, {url}, TRUE, TRUE)
    /\ AdmissionUnchanged

\* plugin POST baselines: the baseline row is created, then the capture
\* starts
PluginCreateBaseline(fail) ==
    /\ admission.handler = "plugin_baseline"
    /\ ~admission.handled
    /\ LET url == admission.bodyUrl
       IN admission' =
             IF url.kind = "absent" THEN Rejected(admission, 400, {})
             ELSE IF fail = "insert" THEN Rejected(admission, 500, {})
             ELSE IF fail = "capture" THEN Admitted(admission, 500, {}, {url}, FALSE, TRUE)
             ELSE IF fail = "upload" THEN Admitted(admission, 500, {}, {url}, FALSE, TRUE)
             ELSE Admitted(admission, 201, {}, {url}, TRUE, TRUE)
    /\ AdmissionUnchanged

\* plugin POST runs, for an existing baseline: body.url || baseline.source_url
PluginCreateRun(fail) ==
    /\ admission.handler = "plugin_run"
    /\ ~admission.handled
    /\ LET url == IF admission.bodyUrl.kind = "absent" THEN admission.baselineUrl
                  ELSE admission.bodyUrl
       IN admission' =
             IF fail = "capture" THEN Admitted(admission, 500, {}, {url}, FALSE, FALSE)
             ELSE IF fail = "insert" THEN Admitted(admission, 500, {}, {url}, FALSE, FALSE)
             ELSE IF fail = "upload" THEN Admitted(admission, 500, {}, {url}, FALSE, TRUE)
             ELSE Admitted(admission, 201, {}, {url}, TRUE, TRUE)
    /\ AdmissionUnchanged

InitGuard ==
    /\ baseline \in {MkImage(1, 1, [p \in {1} |-> Black])}
    /\ current = baseline
    /\ cmp = NotCompared
    /\ aiEnv = NoAiEnv
    /\ ai = NotCalled
    /\ EdgeIdle
    /\ ServerIdle
    /\ ConcIdle
    /\ sweep = <<>>
    /\ urlCheck = Null
    /\ RateIdle
    /\ IndexIdle
    /\ \E h \in Handlers : \E b \in BodyUrls : \E d \in BaselineUrls :
          /\ h \in {"edge_baseline", "express_baseline", "plugin_baseline"} => d = NoUrl
          /\ admission = [handler |-> h, bodyUrl |-> b, baselineUrl |-> d,
                          handled |-> FALSE, status |-> 0, checked |-> {},
                          captured |-> {}, uploaded |-> FALSE, written |-> FALSE]

NextGuard ==
    \E fail \in AdmissionFailures :
        \/ EdgeCreateBaseline(fail)
        \/ EdgeCreateRun(fail)
        \/ ExpressCreateBaseline(fail)
        \/ ExpressCreateRun(fail)
        \/ PluginCreateBaseline(fail)
        \/ PluginCreateRun(fail)

SpecGuard == InitGuard /\ [][NextGuard]_vars

\* the URL the request asks to capture: the override, else the baseline's
RequestedUrl ==
    IF admission.bodyUrl.kind # "absent" THEN admission.bodyUrl ELSE admission.baselineUrl

\* capture only for a URL that isUrlSafe was asked about and reported safe
CaptureGuarded ==
    \A u \in admission.captured : [url |-> u, safe |-> TRUE] \in admission.checked

\* a URL that isUrlSafe reports unsafe is answered 400 with no capture, no
\* upload and no write
UnsafeRefused ==
    (RequestedUrl.kind \notin {"absent", "blank"} /\ ~ReportedSafe(RequestedUrl))
        => /\ admission.status = 400
           /\ admission.captured = {}
           /\ ~admission.uploaded
           /\ ~admission.written

\* C27: in every baseline-creation and run-creation path a screenshot
\* capture is started only for a URL that isUrlSafe has reported safe, the
\* URL checked being the URL captured, and an unsafe URL is answered 400 with
\* no capture, no upload and no database write.
C27_CaptureOnlySafeUrls ==
    admission.handled => CaptureGuarded /\ UnsafeRefused

\* the edge handlers alone keep the guard
EdgeHandlersGuarded ==
    (admission.handled /\ admission.handler \in {"edge_baseline", "edge_run"})
        => CaptureGuarded /\ UnsafeRefused

\* a capture of the loopback address that no guard looked at
UnguardedCapture ==
    /\ admission.handled
    /\ LoopbackUrl \in admission.captured
    /\ admission.checked = {}

-----------------------------------------------------------------------------
(* Results of the Express create-run route                                 *)

\* the invariants of one VisualRunResult
WellFormedResult(result) ==
    /\ result.status \in {"PASS", "FAIL", "ERROR"}
    /\ (result.errorCode = "null") <=> (result.status \in {"PASS", "FAIL"})
    /\ result.status = "ERROR" =>
          /\ result.errorCode \in {"DIMENSION_MISMATCH", "CAPTURE_FAILED", "COMPARE_FAILED"}
          /\ result.mismatchPixelCount = 0
          /\ result.totalPixels = 0
          /\ result.mismatchPercent = <<0, 1>>
          /\ result.diff = NoPath

\* C28: every run result the Express create-run route saves or returns has
\* status PASS, FAIL or ERROR; its errorCode is null if and only if the
\* status is PASS or FAIL; and with status ERROR the errorCode is one of
\* DIMENSION_MISMATCH, CAPTURE_FAILED, COMPARE_FAILED, all three metrics are
\* 0 and artifacts.diff is null.
C28_ResultWellFormed ==
    /\ serverResponse.status = 201 => WellFormedResult(ResultBody(serverResponse))
    /\ \A runId \in DOMAIN resultFiles : WellFormedResult(resultFiles[runId])

\* an ERROR result of a failed comparison was saved and returned
C28_Witness ==
    /\ serverResponse.status = 201
    /\ serverResponse.runStatus = "ERROR"
    /\ serverResponse.errorCode = "COMPARE_FAILED"
    /\ RunId \in DOMAIN resultFiles
    /\ resultFiles[RunId].status = "ERROR"

\* the request was for an existing baseline with a valid body and the
\* handler is through with it
ValidRequestHandled ==
    serverResponse # NoServerResponse /\ serverResponse.status \notin {400, 404}

OneResultSaved ==
    /\ serverResponse.status = 201
    /\ DOMAIN resultFiles = {RunId}
    /\ resultFiles[RunId] = ResultBody(serverResponse)
    /\ Path(RunId, "result.json") \in serverFiles

CaptureFailureRecorded ==
    (serverResponse.status = 201 /\ serverResponse.errorCode = "CAPTURE_FAILED") =>
        /\ cmp.impl # "server"
        /\ resultFiles[RunId].status = "ERROR"
        /\ resultFiles[RunId].errorCode = "CAPTURE_FAILED"

FetchReturnsSaved ==
    (fetched.afterCreate /\ fetched.runId = RunId) =>
        /\ fetched.status = 200
        /\ fetched.body = ResultBody(serverResponse)

====
